---- MODULE Spec2Model ----
(***************************************************************************)
(* Model of the 2.4GHz sensor visualisation application (sallai/pltapp):   *)
(* the data generator, the PlotDataBuffer, the module state of             *)
(* src/app/root_page.py and its handlers (start/stop/clear, the timer      *)
(* callback update_sensor_data, the two plotly_selected handlers).         *)
(*                                                                         *)
(* Units: frequencies and bandwidths are whole MHz, powers whole dBm,      *)
(* times tenths of a second.  Marker sizes are kept in quarter units       *)
(* (4 * size) so that bw / 4 stays an integer.                             *)
(*                                                                         *)
(* A Python Optional is a sequence of length 0 (None) or 1 (the value).    *)
(***************************************************************************)
EXTENDS Integers, Sequences, FiniteSets, TLC

None == << >>
Some(v) == << v >>
IsNone(o) == Len(o) = 0
Val(o) == o[1]

Min(a, b) == IF a <= b THEN a ELSE b
Max(a, b) == IF a >= b THEN a ELSE b
Abs(a) == IF a >= 0 THEN a ELSE -a
\* Python's min(list) / max(list) on a non-empty list.
MinOf(s) == CHOOSE m \in {s[i] : i \in 1..Len(s)} : \A j \in 1..Len(s) : m <= s[j]
MaxOf(s) == CHOOSE m \in {s[i] : i \in 1..Len(s)} : \A j \in 1..Len(s) : m >= s[j]
Range(s) == {s[i] : i \in 1..Len(s)}

(***************************************************************************)
(* Bounds of the model.                                                    *)
(***************************************************************************)
\* Number of distinct outcomes of the random source (and clock) per call.
NumSeeds == 2
\* PlotDataBuffer under arbitrary add_data/clear sequences (SpecBuffer).
MaxCap == 3
MaxBatch == 3
MaxAdded == 5
NumElems == 2
\* Largest batch the model generates.
MaxPackets == 305
MaxCount == 3
MaxRequests == 2
MaxAttempts == 3
MaxEvents == 2

(***************************************************************************)
(* src/data_generator.py                                                   *)
(***************************************************************************)
FREQ_MIN == 2400
FREQ_MAX == 2500
POWER_MIN == -100
POWER_MAX == -30
BANDWIDTH_MIN == 1
BANDWIDTH_MAX == 80
WIFI_CHANNELS == <<2412, 2417, 2422, 2427, 2432, 2437, 2442, 2447, 2452, 2457, 2462, 2467, 2472>>
BLUETOOTH_BASE == 2402

\* One outcome of random.random() < p / random.choice / random.uniform /
\* random.randint / random.gauss is an argument of the operators below.
\* rand is random.random() in percent (0..99).
_generate_realistic_frequency(rand, base_channel, offset, hop_channel, uni) ==
    IF rand < 60
    THEN Max(FREQ_MIN, Min(FREQ_MAX, base_channel + offset))
    ELSE IF rand < 90
         THEN Min(FREQ_MAX, BLUETOOTH_BASE + hop_channel)
         ELSE uni

_generate_realistic_bandwidth(frequency, rand, typical, rare, bt, uni) ==
    IF \E k \in 1..Len(WIFI_CHANNELS) : Abs(frequency - WIFI_CHANNELS[k]) < 15
    THEN IF rand < 80 THEN typical ELSE rare
    ELSE IF BLUETOOTH_BASE <= frequency /\ frequency <= BLUETOOTH_BASE + 78
         THEN bt
         ELSE uni

\* Fault: the final power returned without the clamp to POWER_MIN..POWER_MAX.
_generate_realistic_power_unclamped(base, noise, rand_strong, strong, rand_weak, weak) ==
    LET b1 == IF rand_strong < 5 THEN strong ELSE base
        b2 == IF rand_weak < 10 THEN weak ELSE b1
    IN  b2 + noise

_generate_realistic_power(base, noise, rand_strong, strong, rand_weak, weak) ==
    LET b1 == IF rand_strong < 5 THEN strong ELSE base
        b2 == IF rand_weak < 10 THEN weak ELSE b1
    IN  Max(POWER_MIN, Min(POWER_MAX, b2 + noise))

\* The k-th draw for packet i of the random stream identified by seed,
\* uniformly spread over lo..hi.
Draw(seed, i, k, lo, hi) == lo + ((seed * 7919 + i * 104729 + k * 1299709 + seed * i * k) % (hi - lo + 1))

\* time.time() of the call identified by seed, in tenths of a second.
current_time(seed) == 1000 + 10 * seed

\* One iteration of the loop of generate_sensor_data.
Sample(seed, i) ==
    LET timestamp == current_time(seed) + Draw(seed, i, 1, -1, 1)
        frequency == _generate_realistic_frequency(
                         Draw(seed, i, 2, 0, 99),
                         WIFI_CHANNELS[Draw(seed, i, 3, 1, 13)],
                         Draw(seed, i, 4, -11, 11),
                         Draw(seed, i, 5, 0, 78),
                         Draw(seed, i, 6, FREQ_MIN, FREQ_MAX))
        bandwidth == _generate_realistic_bandwidth(
                         frequency,
                         Draw(seed, i, 7, 0, 99),
                         <<20, 40>>[Draw(seed, i, 8, 1, 2)],
                         <<5, 10, 80>>[Draw(seed, i, 9, 1, 3)],
                         <<1, 1, 1, 2>>[Draw(seed, i, 10, 1, 4)],
                         Draw(seed, i, 11, BANDWIDTH_MIN, 20))
        power == _generate_realistic_power(
                         Draw(seed, i, 12, -85, -45),
                         Draw(seed, i, 13, -9, 9),
                         Draw(seed, i, 14, 0, 99),
                         Draw(seed, i, 15, -40, -30),
                         Draw(seed, i, 16, 0, 99),
                         Draw(seed, i, 17, -95, -85))
    IN  <<timestamp, frequency, bandwidth, power>>

\* The packets of each random stream, tabulated once.
PacketTable == [seed \in 1..NumSeeds |-> [i \in 1..MaxPackets |-> Sample(seed, i)]]

generate_sensor_data(packets, seed) == [i \in 1..packets |-> PacketTable[seed][i]]

(***************************************************************************)
(* src/plotting.py: PlotDataBuffer                                         *)
(***************************************************************************)
PlotDataBuffer(max_size) == [max_size |-> max_size, data_buffer |-> << >>]

\* Fault: a full buffer that refuses new elements (keeps the oldest ones).
deque_extend_keeps_oldest(deque, maxlen, iterable) ==
    LET all == deque \o iterable
    IN  IF Len(all) <= maxlen THEN all ELSE SubSeq(all, 1, maxlen)

\* deque(maxlen).extend(iterable): every element goes in on the right, and
\* each time the deque is over its maxlen its leftmost element is dropped;
\* what is left is the rightmost maxlen elements of old contents + iterable.
deque_extend(deque, maxlen, iterable) ==
    LET all == deque \o iterable
        n == Len(all)
    IN  IF n <= maxlen THEN all ELSE SubSeq(all, n - maxlen + 1, n)

add_data(self, new_data) ==
    [self EXCEPT !.data_buffer = deque_extend(self.data_buffer, self.max_size, new_data)]

get_data(self) == self.data_buffer

clear(self) == [self EXCEPT !.data_buffer = << >>]

get_size(self) == Len(self.data_buffer)

(***************************************************************************)
(* src/plotting.py: the figures.  A figure is the single trace's x, y,     *)
(* marker.color, marker.size and selectedpoints, and layout.shapes.        *)
(***************************************************************************)
POINT_SIZE == 6

Frequencies(data) == [i \in 1..Len(data) |-> data[i][2]]
Bandwidths(data) == [i \in 1..Len(data) |-> data[i][3]]
Powers(data) == [i \in 1..Len(data) |-> data[i][4]]

ScalarSize(v) == [scalar |-> TRUE, v |-> <<v>>]
ArraySize(s) == [scalar |-> FALSE, v |-> s]

\* Fault: bw/4 without the clamp.
MarkerSize_unclamped(bw) == bw

\* max(4, min(15, bw/4)), in quarter units.
MarkerSize(bw) == Max(4 * 4, Min(4 * 15, bw))
Sizes(data) == [i \in 1..Len(data) |-> MarkerSize(data[i][3])]

\* fig.add_vline(x=channel): one line shape per WiFi channel marker.
VLine(channel) == [type |-> "line", x0 |-> channel, x1 |-> channel, y0 |-> 0, y1 |-> 1]
ChannelMarkers == [k \in 1..11 |-> VLine(WIFI_CHANNELS[k])]

create_frequency_bandwidth_plot(data) ==
    IF Len(data) = 0
    THEN [x |-> << >>, y |-> << >>, color |-> None,
          size |-> ScalarSize(POINT_SIZE), selectedpoints |-> None, shapes |-> << >>]
    ELSE [x |-> Frequencies(data), y |-> Bandwidths(data), color |-> Some(Powers(data)),
          size |-> ScalarSize(POINT_SIZE), selectedpoints |-> None, shapes |-> << >>]

create_scanner_plot(data) ==
    IF Len(data) = 0
    THEN [x |-> << >>, y |-> << >>, color |-> None,
          size |-> ScalarSize(POINT_SIZE), selectedpoints |-> None, shapes |-> ChannelMarkers]
    ELSE [x |-> Frequencies(data), y |-> Powers(data), color |-> Some(Bandwidths(data)),
          size |-> ArraySize(Sizes(data)), selectedpoints |-> None,
          shapes |-> ChannelMarkers]

update_frequency_bandwidth_plot(fig, data) ==
    IF Len(data) = 0
    THEN [fig EXCEPT !.x = << >>, !.y = << >>, !.color = Some(<< >>)]
    ELSE [fig EXCEPT !.x = Frequencies(data), !.y = Bandwidths(data),
                     !.color = Some(Powers(data))]

\* Fault: the empty branch of update_scanner_plot without the marker.size reset.
update_scanner_plot_keeps_sizes(fig, data) ==
    IF Len(data) = 0
    THEN [fig EXCEPT !.x = << >>, !.y = << >>, !.color = Some(<< >>)]
    ELSE [fig EXCEPT !.x = Frequencies(data), !.y = Powers(data),
                     !.color = Some(Bandwidths(data)), !.size = ArraySize(Sizes(data))]

update_scanner_plot(fig, data) ==
    IF Len(data) = 0
    THEN [fig EXCEPT !.x = << >>, !.y = << >>, !.color = Some(<< >>),
                     !.size = ArraySize(<< >>)]
    ELSE [fig EXCEPT !.x = Frequencies(data), !.y = Powers(data),
                     !.color = Some(Bandwidths(data)), !.size = ArraySize(Sizes(data))]

(***************************************************************************)
(* src/app/root_page.py: plot element helpers.  A plot element is an       *)
(* Optional figure (the ui.plotly element's .figure).                      *)
(***************************************************************************)
efficient_update_plot_data(plot_element, x_data, y_data, colors, sizes, selected_points) ==
    IF IsNone(plot_element) THEN plot_element
    ELSE LET f == Val(plot_element)
         IN  Some([f EXCEPT !.x = x_data,
                            !.y = y_data,
                            !.color = IF IsNone(colors) THEN @ ELSE colors,
                            !.size = IF IsNone(sizes) THEN @ ELSE ArraySize(Val(sizes)),
                            !.selectedpoints = selected_points])

efficient_clear_plot_data(plot_element) ==
    IF IsNone(plot_element) THEN plot_element
    ELSE Some([Val(plot_element) EXCEPT !.x = << >>,
                                        !.y = << >>,
                                        !.color = Some(<< >>),
                                        !.size = ArraySize(<< >>),
                                        !.selectedpoints = None])

SelectionShape(selection_state) ==
    [type |-> "rect", x0 |-> selection_state.x0, x1 |-> selection_state.x1,
     y0 |-> selection_state.y0, y1 |-> selection_state.y1]

\* Fault: the rectangle appended to the shapes the layout already has.
efficient_update_plot_selection_appends(plot_element, selection_state, selected_points) ==
    IF IsNone(plot_element) THEN plot_element
    ELSE Some([Val(plot_element) EXCEPT
                 !.shapes = IF ~IsNone(selection_state)
                            THEN Append(@, SelectionShape(Val(selection_state)))
                            ELSE << >>,
                 !.selectedpoints = IF ~IsNone(selected_points) /\ Len(Val(selected_points)) > 0
                                    THEN selected_points
                                    ELSE None])

\* selected_points is truthy when it is a non-empty list.
efficient_update_plot_selection(plot_element, selection_state, selected_points) ==
    IF IsNone(plot_element) THEN plot_element
    ELSE Some([Val(plot_element) EXCEPT
                 !.shapes = IF ~IsNone(selection_state)
                            THEN <<SelectionShape(Val(selection_state))>>
                            ELSE << >>,
                 !.selectedpoints = IF ~IsNone(selected_points) /\ Len(Val(selected_points)) > 0
                                    THEN selected_points
                                    ELSE None])

(***************************************************************************)
(* src/app/root_page.py: module state                                      *)
(***************************************************************************)
VARIABLES
    is_generating,
    packets_per_second,
    update_rate,
    data_buffer,
    timer,                    \* Optional [active, interval]: the ui.timer the module refers to
    detached_timers,          \* number of active ui.timer objects the module no longer refers to
    freq_bw_plot_element,
    scanner_plot_element,
    freq_bw_selection_state,
    freq_bw_selected_points,
    scanner_selection_state,
    scanner_selected_points,
    last_batch,               \* history: <<packets, seed>> of the batch generated last
    buf,                      \* a PlotDataBuffer driven by arbitrary calls (SpecBuffer)
    added,                    \* history: what was added to buf since its last clear
    gen_batch,                \* Optional [count, data]: a generate_sensor_data call (SpecGenerator)
    gen_packet,               \* the packet one loop iteration is generating (SpecGenerator)
    public_ip_label,          \* Optional [text, color]: DesktopApp.public_ip_label (SpecNetwork)
    ip_requests,              \* number of get_public_ip tasks suspended in client.get
    ip_outcome,               \* history: Optional [e, handler], how the task that ended last ended
    port_search,              \* Optional: a find_free_port call and what run() made of it (SpecPorts)
    wm_call,                  \* Optional: a create_window_manager call (SpecFactory)
    theme,                    \* [dark_mode_enabled, theme_switch, dark_mode_element] of root_page
    main_proc,                \* main.py: the main thread, the server thread and the cleanup (SpecMain)
    plot_call                 \* Optional: a call of efficient_update/clear_plot_data (SpecPlotCalls)

ctl_vars == <<is_generating, timer, detached_timers>>
cfg_vars == <<packets_per_second, update_rate>>
plot_vars == <<freq_bw_plot_element, scanner_plot_element>>
freq_bw_sel_vars == <<freq_bw_selection_state, freq_bw_selected_points>>
scanner_sel_vars == <<scanner_selection_state, scanner_selected_points>>
sel_vars == <<freq_bw_selection_state, freq_bw_selected_points,
              scanner_selection_state, scanner_selected_points>>
app_vars == <<is_generating, packets_per_second, update_rate, data_buffer, timer,
              detached_timers, freq_bw_plot_element, scanner_plot_element,
              freq_bw_selection_state, freq_bw_selected_points,
              scanner_selection_state, scanner_selected_points, last_batch>>
gen_vars == <<gen_batch, gen_packet>>
net_vars == <<public_ip_label, ip_requests, ip_outcome>>
main_vars == <<port_search, wm_call, theme, main_proc, plot_call>>
buf_vars == <<buf, added, gen_batch, gen_packet, public_ip_label, ip_requests, ip_outcome,
              port_search, wm_call, theme, main_proc, plot_call>>
vars == <<is_generating, packets_per_second, update_rate, data_buffer, timer,
          detached_timers, freq_bw_plot_element, scanner_plot_element,
          freq_bw_selection_state, freq_bw_selected_points,
          scanner_selection_state, scanner_selected_points, last_batch,
          buf, added, gen_batch, gen_packet,
          public_ip_label, ip_requests, ip_outcome,
          port_search, wm_call, theme, main_proc, plot_call>>

Seeds == 1..NumSeeds

MAX_SIZE == 300
INITIAL_PACKETS == 10

\* Values of the packets slider (min=10, max=5000, step=5) and of the update
\* rate slider (0.1 .. 5.0 s, in tenths) that the model lets the user pick.
PacketRates == {305}
UpdateRates == {1}

AppInit ==
    /\ is_generating = FALSE
    /\ packets_per_second = 75
    /\ update_rate = 10
    /\ data_buffer = PlotDataBuffer(MAX_SIZE)
    /\ timer = None
    /\ detached_timers = 0
    /\ freq_bw_plot_element = None
    /\ scanner_plot_element = None
    /\ freq_bw_selection_state = None
    /\ freq_bw_selected_points = None
    /\ scanner_selection_state = None
    /\ scanner_selected_points = None
    /\ last_batch = None

\* No packet is being generated.
NoPacket == [pc |-> "idle", bucket |-> "none", sample |-> <<0, 0, 0, 0>>]
GenIdle ==
    /\ gen_batch = None
    /\ gen_packet = NoPacket

\* DesktopApp.__init__: no label yet, no request made.
NetIdle ==
    /\ public_ip_label = None
    /\ ip_requests = 0
    /\ ip_outcome = None

\* The module globals of main.py before main() runs.
\* pc is where the main thread stands in main(); server_thread is "none"
\* or where BackendServerThread.run stands; server_ready is its Event;
\* stack holds the cleanup_application calls in progress, innermost last;
\* steps (history) lists the cleanup steps run; events counts the signals
\* and window close requests delivered.
MainNotStarted ==
    [pc |-> "not started", window_manager |-> FALSE, main_app |-> FALSE,
     web_view |-> FALSE, server_thread |-> "none", server_ready |-> FALSE,
     shutdown_requested |-> FALSE, handlers |-> FALSE, loaded |-> FALSE,
     shown |-> FALSE, exit_code |-> None, stack |-> << >>, steps |-> << >>,
     calls |-> 0, events |-> 0]

\* No port is being searched, no window manager asked for, the light theme
\* of root_page.py (line 25) with no page built, main() not started.
MainIdle ==
    /\ port_search = None
    /\ wm_call = None
    /\ theme = [dark_mode_enabled |-> FALSE, theme_switch |-> None,
                dark_mode_element |-> None]
    /\ main_proc = MainNotStarted
    /\ plot_call = None

BufIdle ==
    /\ buf = PlotDataBuffer(0)
    /\ added = << >>
    /\ GenIdle
    /\ NetIdle
    /\ MainIdle

\* main_page / _setup_plots_section: a client loads "/"; the plot elements
\* are created from ten sample packets.
_setup_plots_section(seed) ==
    LET initial_data == generate_sensor_data(INITIAL_PACKETS, seed)
    IN  /\ freq_bw_plot_element' = Some(create_frequency_bandwidth_plot(initial_data))
        /\ scanner_plot_element' = Some(create_scanner_plot(initial_data))
        /\ UNCHANGED <<ctl_vars, cfg_vars, data_buffer, sel_vars, last_batch>>

PageLoaded == ~IsNone(freq_bw_plot_element) /\ ~IsNone(scanner_plot_element)

on_packets_change(value) ==
    /\ packets_per_second' = value
    /\ UNCHANGED <<ctl_vars, update_rate, data_buffer, plot_vars, sel_vars, last_batch>>

on_update_rate_change(value) ==
    /\ update_rate' = value
    /\ timer' = IF is_generating /\ ~IsNone(timer)
                THEN Some([Val(timer) EXCEPT !.interval = value])
                ELSE timer
    /\ UNCHANGED <<is_generating, detached_timers, packets_per_second, data_buffer,
                   plot_vars, sel_vars, last_batch>>

\* Fault: start_generation without its "if is_generating: return" guard.
start_generation_unguarded ==
    /\ is_generating' = TRUE
    /\ timer' = Some([active |-> TRUE, interval |-> update_rate])
    /\ detached_timers' = detached_timers + (IF IsNone(timer) THEN 0 ELSE 1)
    /\ UNCHANGED <<cfg_vars, data_buffer, plot_vars, sel_vars, last_batch>>

start_generation ==
    IF is_generating
    THEN UNCHANGED <<ctl_vars, cfg_vars, data_buffer, plot_vars, sel_vars, last_batch>>
    ELSE /\ is_generating' = TRUE
         /\ timer' = Some([active |-> TRUE, interval |-> update_rate])
         /\ detached_timers' = detached_timers + (IF IsNone(timer) THEN 0 ELSE 1)
         /\ UNCHANGED <<cfg_vars, data_buffer, plot_vars, sel_vars, last_batch>>

\* Fault: stop_generation that drops its timer without "timer.active = False".
stop_generation_leaves_timer_active ==
    IF ~is_generating
    THEN UNCHANGED <<ctl_vars, cfg_vars, data_buffer, plot_vars, sel_vars, last_batch>>
    ELSE /\ is_generating' = FALSE
         /\ timer' = None
         /\ detached_timers' = detached_timers + (IF IsNone(timer) THEN 0 ELSE 1)
         /\ UNCHANGED <<cfg_vars, data_buffer, plot_vars, sel_vars, last_batch>>

stop_generation ==
    IF ~is_generating
    THEN UNCHANGED <<ctl_vars, cfg_vars, data_buffer, plot_vars, sel_vars, last_batch>>
    ELSE /\ is_generating' = FALSE
         /\ timer' = None
         /\ UNCHANGED <<detached_timers, cfg_vars, data_buffer, plot_vars, sel_vars, last_batch>>

\* Fault: clear_plots without the two efficient_update_plot_selection calls.
clear_plots_keeps_overlay ==
    /\ data_buffer' = clear(data_buffer)
    /\ freq_bw_selection_state' = None
    /\ freq_bw_selected_points' = None
    /\ scanner_selection_state' = None
    /\ scanner_selected_points' = None
    /\ freq_bw_plot_element' = efficient_clear_plot_data(freq_bw_plot_element)
    /\ scanner_plot_element' = efficient_clear_plot_data(scanner_plot_element)
    /\ UNCHANGED <<ctl_vars, cfg_vars, last_batch>>

\* Fault: clear_plots that also stops the update loop.
clear_plots_stops_generation ==
    /\ data_buffer' = clear(data_buffer)
    /\ freq_bw_selection_state' = None
    /\ freq_bw_selected_points' = None
    /\ scanner_selection_state' = None
    /\ scanner_selected_points' = None
    /\ freq_bw_plot_element' =
           efficient_update_plot_selection(efficient_clear_plot_data(freq_bw_plot_element), None, None)
    /\ scanner_plot_element' =
           efficient_update_plot_selection(efficient_clear_plot_data(scanner_plot_element), None, None)
    /\ is_generating' = FALSE
    /\ timer' = None
    /\ UNCHANGED <<detached_timers, cfg_vars, last_batch>>

clear_plots ==
    /\ data_buffer' = clear(data_buffer)
    /\ freq_bw_selection_state' = None
    /\ freq_bw_selected_points' = None
    /\ scanner_selection_state' = None
    /\ scanner_selected_points' = None
    /\ freq_bw_plot_element' =
           efficient_update_plot_selection(efficient_clear_plot_data(freq_bw_plot_element), None, None)
    /\ scanner_plot_element' =
           efficient_update_plot_selection(efficient_clear_plot_data(scanner_plot_element), None, None)
    /\ UNCHANGED <<ctl_vars, cfg_vars, last_batch>>

\* Fault: the stored indices re-applied without the "if i < len(frequencies)".
FilterSelected_keeps_all(selected_points, length) == selected_points

\* [i for i in selected_points if i < len(frequencies)]
FilterSelected(selected_points, length) ==
    SelectSeq(selected_points, LAMBDA i : i < length)

\* "Determine selected points if there's a selection state": both the stored
\* rectangle and the stored index list must be truthy.
TickSelectedPoints(selection_state, selected_points, length) ==
    IF ~IsNone(selection_state) /\ ~IsNone(selected_points) /\ Len(Val(selected_points)) > 0
    THEN Some(FilterSelected(Val(selected_points), length))
    ELSE None

\* The frequency/bandwidth half of the tick.
TickFreqBwPlot(plot_element, current_data, selection_state, selected_points) ==
    IF ~IsNone(plot_element) /\ Len(current_data) > 0
    THEN LET frequencies == Frequencies(current_data)
             selected == TickSelectedPoints(selection_state, selected_points, Len(frequencies))
             updated == efficient_update_plot_data(plot_element, frequencies,
                            Bandwidths(current_data), Some(Powers(current_data)), None, selected)
         IN  IF ~IsNone(selection_state)
             THEN efficient_update_plot_selection(updated, selection_state, selected)
             ELSE updated
    ELSE IF ~IsNone(plot_element)
         THEN efficient_clear_plot_data(plot_element)
         ELSE plot_element

\* Fault: the scanner plot is not redrawn by a tick.
TickScannerPlot_stale(plot_element, current_data, selection_state, selected_points) ==
    plot_element

\* The scanner half of the tick.
TickScannerPlot(plot_element, current_data, selection_state, selected_points) ==
    IF ~IsNone(plot_element) /\ Len(current_data) > 0
    THEN LET frequencies == Frequencies(current_data)
             selected == TickSelectedPoints(selection_state, selected_points, Len(frequencies))
             updated == efficient_update_plot_data(plot_element, frequencies,
                            Powers(current_data), Some(Bandwidths(current_data)),
                            Some(Sizes(current_data)),
                            selected)
         IN  IF ~IsNone(selection_state)
             THEN efficient_update_plot_selection(updated, selection_state, selected)
             ELSE updated
    ELSE IF ~IsNone(plot_element)
         THEN efficient_clear_plot_data(plot_element)
         ELSE plot_element

\* Fault: the tick without data_buffer.clear().
ReplaceBuffer_without_clear(buffer, new_data) == add_data(buffer, new_data)

\* data_buffer.clear(); data_buffer.add_data(new_data)
ReplaceBuffer(buffer, new_data) == add_data(clear(buffer), new_data)

\* A pointIndex that is not a number (a JSON string or null): comparing it
\* with an integer raises TypeError.
NotANumber == -1
IsNumber(i) == i # NotANumber

\* Whether "[i for i in selected_points if i < len(frequencies)]" raises in
\* one plot's half of the tick: that half runs when the plot element exists
\* and the buffer is not empty, and filters when both the stored rectangle
\* and the stored index list are truthy.
TickRaises(plot_element, current_data, selection_state, selected_points) ==
    /\ ~IsNone(plot_element)
    /\ Len(current_data) > 0
    /\ ~IsNone(selection_state)
    /\ ~IsNone(selected_points)
    /\ \E k \in 1..Len(Val(selected_points)) : ~IsNumber(Val(selected_points)[k])

\* Fault: an except block that stops generation.
on_tick_exception_stops_generation ==
    /\ is_generating' = FALSE
    /\ timer' = None
    /\ UNCHANGED detached_timers

\* except Exception as e: the error is logged and printed, nothing else.
on_tick_exception == UNCHANGED ctl_vars

\* Fault: a tick that stores the pruned index list of the frequency /
\* bandwidth plot back into freq_bw_selected_points.
update_sensor_data_prunes_stored(seed) ==
    IF ~is_generating
    THEN UNCHANGED <<ctl_vars, cfg_vars, data_buffer, plot_vars, sel_vars, last_batch>>
    ELSE \E buffer \in {ReplaceBuffer(data_buffer,
                                      generate_sensor_data(packets_per_second, seed))} :
         LET current_data == get_data(buffer)
             freq_bw_raises == TickRaises(freq_bw_plot_element, current_data,
                                          freq_bw_selection_state, freq_bw_selected_points)
             scanner_raises == TickRaises(scanner_plot_element, current_data,
                                          scanner_selection_state, scanner_selected_points)
         IN  /\ data_buffer' = buffer
             /\ last_batch' = Some(<<packets_per_second, seed>>)
             /\ freq_bw_plot_element' =
                    IF freq_bw_raises
                    THEN freq_bw_plot_element
                    ELSE TickFreqBwPlot(freq_bw_plot_element, current_data,
                                        freq_bw_selection_state, freq_bw_selected_points)
             /\ scanner_plot_element' =
                    IF freq_bw_raises \/ scanner_raises
                    THEN scanner_plot_element
                    ELSE TickScannerPlot(scanner_plot_element, current_data,
                                         scanner_selection_state, scanner_selected_points)
             /\ freq_bw_selected_points' =
                    IF IsNone(freq_bw_selected_points) \/ freq_bw_raises
                    THEN freq_bw_selected_points
                    ELSE Some(FilterSelected(Val(freq_bw_selected_points), Len(current_data)))
             /\ IF freq_bw_raises \/ scanner_raises
                THEN on_tick_exception
                ELSE UNCHANGED ctl_vars
             /\ UNCHANGED <<cfg_vars, freq_bw_selection_state, scanner_sel_vars>>

\* The timer callback.  seed identifies the outcome of the random source.
\* Everything after the is_generating guard runs inside try / except
\* Exception: the buffer is replaced first, then the frequency/bandwidth plot
\* is updated, then the scanner plot; an exception skips the rest of the body.
update_sensor_data(seed) ==
    IF ~is_generating
    THEN UNCHANGED <<ctl_vars, cfg_vars, data_buffer, plot_vars, sel_vars, last_batch>>
    ELSE \E buffer \in {ReplaceBuffer(data_buffer,
                                      generate_sensor_data(packets_per_second, seed))} :
         LET current_data == get_data(buffer)
             freq_bw_raises == TickRaises(freq_bw_plot_element, current_data,
                                          freq_bw_selection_state, freq_bw_selected_points)
             scanner_raises == TickRaises(scanner_plot_element, current_data,
                                          scanner_selection_state, scanner_selected_points)
         IN  /\ data_buffer' = buffer
             /\ last_batch' = Some(<<packets_per_second, seed>>)
             /\ freq_bw_plot_element' =
                    IF freq_bw_raises
                    THEN freq_bw_plot_element
                    ELSE TickFreqBwPlot(freq_bw_plot_element, current_data,
                                        freq_bw_selection_state, freq_bw_selected_points)
             /\ scanner_plot_element' =
                    IF freq_bw_raises \/ scanner_raises
                    THEN scanner_plot_element
                    ELSE TickScannerPlot(scanner_plot_element, current_data,
                                         scanner_selection_state, scanner_selected_points)
             /\ IF freq_bw_raises \/ scanner_raises
                THEN on_tick_exception
                ELSE UNCHANGED ctl_vars
             /\ UNCHANGED <<cfg_vars, sel_vars>>

(***************************************************************************)
(* The plotly_selected payloads.  A payload is an Optional record          *)
(* [range, points]: range an Optional [x, y] of two-element lists, points  *)
(* an Optional list of [x, y, pointIndex]; a key that is absent is None.   *)
(***************************************************************************)
Payload(range, points) == Some([range |-> range, points |-> points])
EmptyDict == Payload(None, None)
\* Python truthiness of selection_data: not None and not an empty dict.
Truthy(selection_data) ==
    /\ ~IsNone(selection_data)
    /\ ~(IsNone(Val(selection_data).range) /\ IsNone(Val(selection_data).points))
HasRange(selection_data) == ~IsNone(Val(selection_data).range)
\* 'points' in selection_data and selection_data['points']
HasPoints(selection_data) ==
    /\ ~IsNone(Val(selection_data).points)
    /\ Len(Val(Val(selection_data).points)) > 0
PointsOf(selection_data) == Val(Val(selection_data).points)
Xs(points) == [i \in 1..Len(points) |-> points[i].x]
Ys(points) == [i \in 1..Len(points) |-> points[i].y]
PointIndices(points) == [i \in 1..Len(points) |-> points[i].pointIndex]

RectFromRange(range) ==
    [x0 |-> range.x[1], x1 |-> range.x[2], y0 |-> range.y[1], y1 |-> range.y[2]]
RectFromPoints(points) ==
    [x0 |-> MinOf(Xs(points)), x1 |-> MaxOf(Xs(points)),
     y0 |-> MinOf(Ys(points)), y1 |-> MaxOf(Ys(points))]

\* Fault: the if / elif in the other order (the points' bounding box preferred).
SelectionRect_prefers_points(selection_data) ==
    IF HasPoints(selection_data)
    THEN Some(RectFromPoints(PointsOf(selection_data)))
    ELSE IF HasRange(selection_data)
         THEN Some(RectFromRange(Val(Val(selection_data).range)))
         ELSE None

\* The rectangle chosen by the if / elif / else on 'range' and 'points'.
SelectionRect(selection_data) ==
    IF HasRange(selection_data)
    THEN Some(RectFromRange(Val(Val(selection_data).range)))
    ELSE IF HasPoints(selection_data)
         THEN Some(RectFromPoints(PointsOf(selection_data)))
         ELSE None

\* "Store selected point indices"
SelectionIndices(selection_data) ==
    IF HasPoints(selection_data)
    THEN Some(PointIndices(PointsOf(selection_data)))
    ELSE None

\* Fault: a handler whose "selection cleared" branch forgets the index list.
handle_freq_bw_selection_keeps_indices(selection_data) ==
    /\ IF Truthy(selection_data)
       THEN /\ freq_bw_selection_state' = SelectionRect(selection_data)
            /\ freq_bw_selected_points' = SelectionIndices(selection_data)
       ELSE /\ freq_bw_selection_state' = None
            /\ UNCHANGED freq_bw_selected_points
    /\ UNCHANGED <<ctl_vars, cfg_vars, data_buffer, plot_vars, scanner_sel_vars, last_batch>>

\* Fault: a handler whose "selection cleared" branch clears both plots.
handle_freq_bw_selection_clears_both(selection_data) ==
    IF Truthy(selection_data)
    THEN /\ freq_bw_selection_state' = SelectionRect(selection_data)
         /\ freq_bw_selected_points' = SelectionIndices(selection_data)
         /\ UNCHANGED <<ctl_vars, cfg_vars, data_buffer, plot_vars, scanner_sel_vars, last_batch>>
    ELSE /\ freq_bw_selection_state' = None
         /\ freq_bw_selected_points' = None
         /\ scanner_selection_state' = None
         /\ scanner_selected_points' = None
         /\ UNCHANGED <<ctl_vars, cfg_vars, data_buffer, plot_vars, last_batch>>

\* The handler raises while it builds the rectangle: selection_data['range']
\* holds fewer than two x or two y values (IndexError).
RectRaises(selection_data) ==
    /\ HasRange(selection_data)
    /\ \/ Len(Val(Val(selection_data).range).x) < 2
       \/ Len(Val(Val(selection_data).range).y) < 2

\* The handler raises while it builds the index list: a point has no
\* 'pointIndex' key (KeyError).
IndicesRaise(selection_data) ==
    /\ HasPoints(selection_data)
    /\ \E k \in 1..Len(PointsOf(selection_data)) :
          "pointIndex" \notin DOMAIN PointsOf(selection_data)[k]

handle_freq_bw_selection(selection_data) ==
    /\ IF Truthy(selection_data)
       THEN /\ freq_bw_selection_state' =
                   IF RectRaises(selection_data)
                   THEN freq_bw_selection_state
                   ELSE SelectionRect(selection_data)
            /\ freq_bw_selected_points' =
                   IF RectRaises(selection_data) \/ IndicesRaise(selection_data)
                   THEN freq_bw_selected_points
                   ELSE SelectionIndices(selection_data)
       ELSE /\ freq_bw_selection_state' = None
            /\ freq_bw_selected_points' = None
    /\ UNCHANGED <<ctl_vars, cfg_vars, data_buffer, plot_vars, scanner_sel_vars, last_batch>>

handle_scanner_selection(selection_data) ==
    /\ IF Truthy(selection_data)
       THEN /\ scanner_selection_state' =
                   IF RectRaises(selection_data)
                   THEN scanner_selection_state
                   ELSE SelectionRect(selection_data)
            /\ scanner_selected_points' =
                   IF RectRaises(selection_data) \/ IndicesRaise(selection_data)
                   THEN scanner_selected_points
                   ELSE SelectionIndices(selection_data)
       ELSE /\ scanner_selection_state' = None
            /\ scanner_selected_points' = None
    /\ UNCHANGED <<ctl_vars, cfg_vars, data_buffer, plot_vars, freq_bw_sel_vars, last_batch>>

\* Payloads the browser sends: y is a bandwidth on the frequency/bandwidth
\* plot and a power on the scanner plot.
Point(x, y, pointIndex) == [x |-> x, y |-> y, pointIndex |-> pointIndex]
RangeOf(xa, xb, ya, yb) == Some([x |-> <<xa, xb>>, y |-> <<ya, yb>>])
\* low: the two leftmost points; part: one index below and one above the
\* default batch size; gone: only indices above the default batch size.
LowPoints(ya, yb) == <<Point(2412, ya, 0), Point(2417, yb, 1)>>
PartPoints(ya, yb) == <<Point(2440, yb, 80), Point(2450, ya, 0)>>
GonePoints(ya, yb) == <<Point(2460, ya, 299), Point(2430, yb, 80)>>
PayloadsOver(ya, yb, ra, rb) ==
    LET range == RangeOf(2410, 2470, ra, rb)
    IN  { None, EmptyDict,
          Payload(None, Some(<< >>)), Payload(range, None), Payload(range, Some(<< >>)),
          Payload(None, Some(LowPoints(ya, yb))), Payload(range, Some(LowPoints(ya, yb))),
          Payload(None, Some(PartPoints(ya, yb))), Payload(range, Some(GonePoints(ya, yb))) }
FreqBwPayloads == PayloadsOver(20, 40, 15, 45)
ScannerPayloads == PayloadsOver(-70, -50, -75, -45)
\* The payloads the model lets the browser send.
EventsOver(ya, yb, ra, rb) ==
    LET range == RangeOf(2410, 2470, ra, rb)
    IN  { None, Payload(range, None),
          Payload(None, Some(PartPoints(ya, yb))), Payload(range, Some(GonePoints(ya, yb))) }
FreqBwEvents == EventsOver(20, 40, 15, 45)
ScannerEvents == {None, Payload(None, Some(PartPoints(-70, -50)))}

\* Payloads of a misbehaving client: one pointIndex is not a number.
MalformedPoints(ya, yb) == <<Point(2440, yb, NotANumber), Point(2450, ya, 0)>>
FreqBwMalformedEvents == {Payload(None, Some(MalformedPoints(20, 40)))}
ScannerMalformedEvents == {Payload(None, Some(MalformedPoints(-70, -50)))}

(***************************************************************************)
(* The application: what the user, the browser and the timer can do.       *)
(***************************************************************************)
PageLoad ==
    /\ \E seed \in Seeds : _setup_plots_section(seed)
    /\ UNCHANGED buf_vars

PacketsChange ==
    /\ PageLoaded
    /\ \E value \in PacketRates : on_packets_change(value)
    /\ UNCHANGED buf_vars

UpdateRateChange ==
    /\ PageLoaded
    /\ \E value \in UpdateRates :
          on_update_rate_change(value)
    /\ UNCHANGED buf_vars

Start ==
    /\ PageLoaded
    /\ start_generation
    /\ UNCHANGED buf_vars

Stop ==
    /\ PageLoaded
    /\ stop_generation
    /\ UNCHANGED buf_vars

Clear ==
    /\ PageLoaded
    /\ clear_plots
    /\ UNCHANGED buf_vars

\* An active ui.timer (the one the module refers to, or a detached one)
\* invokes the callback; seed is what the random source yields in it.
TimerFires(seed) ==
    /\ (~IsNone(timer) /\ Val(timer).active) \/ detached_timers > 0
    /\ update_sensor_data(seed)
    /\ UNCHANGED buf_vars

Tick == \E seed \in Seeds : TimerFires(seed)

\* An invocation of the callback that arrives although generation is off
\* (a callback already queued when stop_generation ran).
LateCallback ==
    /\ PageLoaded
    /\ ~is_generating
    /\ \E seed \in Seeds : update_sensor_data(seed)
    /\ UNCHANGED buf_vars

\* The browser delivers a plotly_selected event of one plot.
FreqBwEvent(selection_data) ==
    /\ PageLoaded
    /\ handle_freq_bw_selection(selection_data)
    /\ UNCHANGED buf_vars

ScannerEvent(selection_data) ==
    /\ PageLoaded
    /\ handle_scanner_selection(selection_data)
    /\ UNCHANGED buf_vars

FreqBwSelected == \E selection_data \in FreqBwEvents : FreqBwEvent(selection_data)

ScannerSelected == \E selection_data \in ScannerEvents : ScannerEvent(selection_data)

Init == AppInit /\ BufIdle

Next ==
    \/ PageLoad
    \/ PacketsChange
    \/ UpdateRateChange
    \/ Start
    \/ Stop
    \/ Clear
    \/ Tick
    \/ LateCallback
    \/ FreqBwSelected
    \/ ScannerSelected

Spec == Init /\ [][Next]_vars

(***************************************************************************)
(* The application with a client that also sends malformed payloads.       *)
(***************************************************************************)
FreqBwMalformedSelected ==
    \E selection_data \in FreqBwMalformedEvents : FreqBwEvent(selection_data)

ScannerMalformedSelected ==
    \E selection_data \in ScannerMalformedEvents : ScannerEvent(selection_data)

\* The sliders are left at their defaults.
NextMalformed ==
    \/ PageLoad
    \/ Start
    \/ Stop
    \/ Clear
    \/ Tick
    \/ FreqBwSelected
    \/ ScannerSelected
    \/ FreqBwMalformedSelected
    \/ ScannerMalformedSelected

SpecMalformed == Init /\ [][NextMalformed]_vars

\* Payloads a handler raises on: a range with one x value only, and a point
\* without 'pointIndex' sent along with a range.
BrokenEvents ==
    {Payload(Some([x |-> <<2420>>, y |-> <<15, 45>>]), Some(LowPoints(20, 40))),
     Payload(RangeOf(2420, 2460, 15, 45), Some(<<[x |-> 2440, y |-> 20]>>))}

FreqBwBrokenSelected == \E selection_data \in BrokenEvents : FreqBwEvent(selection_data)

ScannerBrokenSelected == \E selection_data \in BrokenEvents : ScannerEvent(selection_data)

NextBroken ==
    \/ PageLoad
    \/ Start
    \/ Stop
    \/ Clear
    \/ FreqBwSelected
    \/ ScannerSelected
    \/ FreqBwBrokenSelected
    \/ ScannerBrokenSelected

SpecBroken == Init /\ [][NextBroken]_vars

(***************************************************************************)
(* A PlotDataBuffer of any capacity under any sequence of add_data and     *)
(* clear calls.                                                            *)
(***************************************************************************)
Elems == 1..NumElems
Batches == UNION {[1..n -> Elems] : n \in 0..MaxBatch}

BufInit ==
    /\ \E max_size \in 0..MaxCap : buf = PlotDataBuffer(max_size)
    /\ added = << >>
    /\ GenIdle
    /\ NetIdle
    /\ MainIdle

BufAdd ==
    \E new_data \in Batches :
        /\ Len(added) + Len(new_data) <= MaxAdded
        /\ buf' = add_data(buf, new_data)
        /\ added' = added \o new_data
        /\ UNCHANGED <<app_vars, main_vars, net_vars, gen_vars>>

BufClear ==
    /\ buf' = clear(buf)
    /\ added' = << >>
    /\ UNCHANGED <<app_vars, main_vars, net_vars, gen_vars>>

BufNext == BufAdd \/ BufClear

InitBuffer == AppInit /\ BufInit

SpecBuffer == InitBuffer /\ [][BufNext]_vars

(***************************************************************************)
(* generate_sensor_data on its own: calls of any count, and one iteration  *)
(* of its loop with every draw of the random source chosen explicitly      *)
(* (random.random() in percent, the other draws at and between the ends of *)
(* their ranges; random.gauss is unbounded, so the noise goes beyond the   *)
(* clamp).                                                                 *)
(***************************************************************************)
Counts == 0..MaxCount
TimeOffsets == {-1, 1}
FrequencyRands == {0, 59, 60, 89, 90, 99}
Offsets == {-11, 0, 11}
HopChannels == {0, 10, 78}
UniformFrequencies == {FREQ_MIN, 2450, 2490, FREQ_MAX}
BandwidthRands == {0, 79, 80, 99}
TypicalBandwidths == {20, 40}
RareBandwidths == {5, 10, 80}
BluetoothBandwidths == {1, 2}
UniformBandwidths == {BANDWIDTH_MIN, 20}
BasePowers == {-85, -45}
Noises == {-20, 0, 20}
StrongRands == {4, 5}
StrongPowers == {-40, -30}
WeakRands == {9, 10}
WeakPowers == {-95, -85}

\* The branch of _generate_realistic_frequency that rand selects.
FrequencyBucket(rand) ==
    IF rand < 60 THEN "wifi" ELSE IF rand < 90 THEN "bluetooth" ELSE "uniform"

\* generate_sensor_data(count) with the random stream seed.
GenerateBatch ==
    \E count \in Counts, seed \in Seeds :
        /\ gen_batch' = Some([count |-> count, data |-> generate_sensor_data(count, seed)])
        /\ gen_packet' = NoPacket
        /\ UNCHANGED <<app_vars, main_vars, net_vars, buf, added>>

\* timestamp = current_time + random.uniform(-0.1, 0.1)
StartPacket ==
    /\ gen_packet.pc \in {"idle", "done"}
    /\ \E dt \in TimeOffsets :
          gen_packet' = [pc |-> "frequency", bucket |-> "none",
                         sample |-> <<current_time(1) + dt, 0, 0, 0>>]
    /\ gen_batch' = None
    /\ UNCHANGED <<app_vars, main_vars, net_vars, buf, added>>

\* frequency = _generate_realistic_frequency()
DrawFrequency ==
    /\ gen_packet.pc = "frequency"
    /\ \E rand \in FrequencyRands, base_channel \in Range(WIFI_CHANNELS),
          offset \in Offsets, hop_channel \in HopChannels, uni \in UniformFrequencies :
          gen_packet' = [pc |-> "bandwidth",
                         bucket |-> FrequencyBucket(rand),
                         sample |-> [gen_packet.sample EXCEPT
                                       ![2] = _generate_realistic_frequency(
                                                  rand, base_channel, offset, hop_channel, uni)]]
    /\ UNCHANGED <<app_vars, main_vars, net_vars, buf, added, gen_batch>>

\* bandwidth = _generate_realistic_bandwidth(frequency)
DrawBandwidth ==
    /\ gen_packet.pc = "bandwidth"
    /\ \E rand \in BandwidthRands, typical \in TypicalBandwidths, rare \in RareBandwidths,
          bt \in BluetoothBandwidths, uni \in UniformBandwidths :
          gen_packet' = [gen_packet EXCEPT
                           !.pc = "power",
                           !.sample[3] = _generate_realistic_bandwidth(
                                             gen_packet.sample[2], rand, typical, rare, bt, uni)]
    /\ UNCHANGED <<app_vars, main_vars, net_vars, buf, added, gen_batch>>

\* power = _generate_realistic_power(frequency); the sample is complete.
DrawPower ==
    /\ gen_packet.pc = "power"
    /\ \E base \in BasePowers, noise \in Noises, rand_strong \in StrongRands,
          strong \in StrongPowers, rand_weak \in WeakRands, weak \in WeakPowers :
          gen_packet' = [gen_packet EXCEPT
                           !.pc = "done",
                           !.sample[4] = _generate_realistic_power(
                                             base, noise, rand_strong, strong, rand_weak, weak)]
    /\ UNCHANGED <<app_vars, main_vars, net_vars, buf, added, gen_batch>>

GenNext ==
    \/ GenerateBatch
    \/ StartPacket
    \/ DrawFrequency
    \/ DrawBandwidth
    \/ DrawPower

SpecGenerator == Init /\ [][GenNext]_vars

(***************************************************************************)
(* The projections on their own: every form (create_*, update_*, the tick  *)
(* loop's efficient update) applied to any short list of samples.          *)
(***************************************************************************)
\* Samples with bandwidths below, inside and above the range the marker
\* size clamp lets through.
ProjectionSamples ==
    { <<1000, 2412, 1, -100>>, <<1000, 2437, 20, -65>>,
      <<1001, 2480, 40, -30>>, <<1001, 2500, 80, -45>> }
ProjectionData == UNION {[1..n -> ProjectionSamples] : n \in 0..MaxCount}

ProjectCreate ==
    \E data \in ProjectionData :
        /\ data_buffer' = ReplaceBuffer(data_buffer, data)
        /\ freq_bw_plot_element' = Some(create_frequency_bandwidth_plot(data))
        /\ scanner_plot_element' = Some(create_scanner_plot(data))
        /\ UNCHANGED <<ctl_vars, cfg_vars, sel_vars, last_batch, buf_vars>>

ProjectUpdate ==
    /\ PageLoaded
    /\ \E data \in ProjectionData :
          /\ data_buffer' = ReplaceBuffer(data_buffer, data)
          /\ freq_bw_plot_element' =
                 Some(update_frequency_bandwidth_plot(Val(freq_bw_plot_element), data))
          /\ scanner_plot_element' = Some(update_scanner_plot(Val(scanner_plot_element), data))
          /\ UNCHANGED <<ctl_vars, cfg_vars, sel_vars, last_batch, buf_vars>>

\* The plot updates of update_sensor_data.
ProjectTick ==
    /\ PageLoaded
    /\ \E data \in ProjectionData :
          /\ data_buffer' = ReplaceBuffer(data_buffer, data)
          /\ freq_bw_plot_element' =
                 TickFreqBwPlot(freq_bw_plot_element, data,
                                freq_bw_selection_state, freq_bw_selected_points)
          /\ scanner_plot_element' =
                 TickScannerPlot(scanner_plot_element, data,
                                 scanner_selection_state, scanner_selected_points)
          /\ UNCHANGED <<ctl_vars, cfg_vars, sel_vars, last_batch, buf_vars>>

ProjectionNext ==
    \/ ProjectCreate
    \/ ProjectUpdate
    \/ ProjectTick

SpecProjection == Init /\ [][ProjectionNext]_vars

\* ---------------------------------------------------------------------
\* DesktopApp: the public IP demo (src/app/desktop_app.py)
\* ---------------------------------------------------------------------

\* str(e)[:50] keeps at most this many characters.
MessageLimit == 50

\* Strings whose characters matter are sequences of character codes; 10
\* and 32 are the whitespace that str.strip() removes from both ends.
strip(text) ==
    LET RECURSIVE lstrip(_), rstrip(_)
        lstrip(t) == IF Len(t) > 0 /\ Head(t) \in {10, 32} THEN lstrip(Tail(t)) ELSE t
        rstrip(t) == IF Len(t) > 0 /\ t[Len(t)] \in {10, 32}
                     THEN rstrip(SubSeq(t, 1, Len(t) - 1))
                     ELSE t
    IN  rstrip(lstrip(text))
Slice(text, n) == SubSeq(text, 1, IF Len(text) < n THEN Len(text) ELSE n)

Label(text, body, tail, color) ==
    [text |-> text, body |-> body, tail |-> tail, color |-> color]
InitialLabel == Label("Click button to fetch IP address", << >>, "", "#1976d2")
FetchingLabel == Label("Fetching IP...", << >>, "", "#ff9800")

\* What the awaited request can end in: a response, whose status
\* raise_for_status turns into an HTTPStatusError, or an exception raised by
\* client.get, with a text of 0, 3, 50 or 51 characters.
Outcome(kind, status_code, text) ==
    [kind |-> kind, status_code |-> status_code, text |-> text]
Responses ==
    {Outcome("Response", 200, t) :
        t \in {<<49, 46, 50>>, <<32, 49, 46, 50, 10>>, <<57, 46, 57>>}}
      \cup {Outcome("Response", c, << >>) : c \in {404, 500}}
Exceptions ==
    {Outcome(k, 0, [i \in 1..n |-> c]) :
        k \in {"TimeoutException", "ConnectError", "RuntimeError"},
        n \in {0, 3, MessageLimit, MessageLimit + 1},
        c \in {97, 98}}

\* response.raise_for_status()
raise_for_status(outcome) ==
    IF outcome.kind = "Response" /\ outcome.status_code >= 400
    THEN Outcome("HTTPStatusError", outcome.status_code, << >>)
    ELSE outcome

\* The except clauses of get_public_ip, in source order.  An exception of
\* kind k is an instance of k and of Exception.
ExceptClauses == <<"TimeoutException", "HTTPStatusError", "Exception">>

\* Fault: no clause for timeouts, which then reach the last clause.
Handler_without_timeout(e) ==
    LET clauses == Tail(ExceptClauses)
        matching == {i \in 1..Len(clauses) : clauses[i] \in {e.kind, "Exception"}}
    IN  IF matching = {} THEN "unhandled"
        ELSE clauses[CHOOSE i \in matching : \A j \in matching : i <= j]

\* The except clause that takes exception e: the first whose class e is an
\* instance of; "unhandled" when there is none and e leaves the coroutine.
Handler(e) ==
    LET matching == {i \in 1..Len(ExceptClauses) : ExceptClauses[i] \in {e.kind, "Exception"}}
    IN  IF matching = {} THEN "unhandled"
        ELSE ExceptClauses[CHOOSE i \in matching : \A j \in matching : i <= j]

\* The label the body of the try statement, or the clause taken, leaves.
ResultLabel(label, outcome) ==
    LET e == raise_for_status(outcome)
    IN  IF e.kind = "Response"
        THEN Label("Public IP: ", strip(e.text), "", "#4caf50")
        ELSE IF Handler(e) = "TimeoutException"
        THEN Label("Request timed out", << >>, "", "#d32f2f")
        ELSE IF Handler(e) = "HTTPStatusError"
        THEN Label("HTTP Error: ", <<e.status_code>>, "", "#d32f2f")
        ELSE IF Handler(e) = "Exception"
        THEN Label("Error: ", Slice(e.text, MessageLimit), "...", "#d32f2f")
        ELSE label

\* The "/" page is built: the label is created.
SetupPage ==
    /\ IsNone(public_ip_label)
    /\ public_ip_label' = Some(InitialLabel)
    /\ UNCHANGED <<ip_requests, ip_outcome>>
    /\ UNCHANGED <<app_vars, main_vars, buf, added, gen_vars>>

\* fetch_ip: a get_public_ip task runs up to its await.
FetchIp ==
    /\ ip_requests < MaxRequests
    /\ IF IsNone(public_ip_label)
       THEN UNCHANGED net_vars
       ELSE /\ public_ip_label' = Some(FetchingLabel)
            /\ ip_requests' = ip_requests + 1
            /\ UNCHANGED ip_outcome
    /\ UNCHANGED <<app_vars, main_vars, buf, added, gen_vars>>

\* The awaited request of one task ends; the task runs to its end.
ResolveIp ==
    /\ ip_requests > 0
    /\ \E outcome \in Responses \cup Exceptions :
          /\ public_ip_label' = Some(ResultLabel(Val(public_ip_label), outcome))
          /\ ip_outcome' =
                 LET e == raise_for_status(outcome)
                 IN  Some([e |-> e,
                           handler |-> IF e.kind = "Response" THEN "none" ELSE Handler(e)])
    /\ ip_requests' = ip_requests - 1
    /\ UNCHANGED <<app_vars, main_vars, buf, added, gen_vars>>

\* Fault: Clear also drops the requests in flight.
ClearIp_cancels ==
    /\ IF IsNone(public_ip_label)
       THEN UNCHANGED public_ip_label
       ELSE public_ip_label' = Some(InitialLabel)
    /\ ip_requests' = 0
    /\ UNCHANGED ip_outcome
    /\ UNCHANGED <<app_vars, main_vars, buf, added, gen_vars>>

\* clear_ip
ClearIp ==
    /\ IF IsNone(public_ip_label)
       THEN UNCHANGED public_ip_label
       ELSE public_ip_label' = Some(InitialLabel)
    /\ UNCHANGED <<ip_requests, ip_outcome>>
    /\ UNCHANGED <<app_vars, main_vars, buf, added, gen_vars>>

NetworkNext ==
    \/ SetupPage
    \/ FetchIp
    \/ ResolveIp
    \/ ClearIp

SpecNetwork == Init /\ [][NetworkNext]_vars

\* ---------------------------------------------------------------------
\* App.find_free_port and the port App.run() hands to ui.run (src/app/app.py)
\* ---------------------------------------------------------------------

\* Defaults of find_free_port, which run() calls with start_port=8000.
DEFAULT_START_PORT == 8000
DEFAULT_MAX_ATTEMPTS == 100

\* A call of find_free_port: the loop variable, what is_port_free answered
\* for the ports tried so far, and how the call ended ("port" is returned,
\* "RuntimeError" is raised).  ui_port is the "port" entry of ui_params.
PortSearch(caller, start_port, max_attempts) ==
    [caller |-> caller, start_port |-> start_port, max_attempts |-> max_attempts,
     port |-> start_port, probed |-> << >>, ended |-> "no", ui_port |-> None]

\* Fault: the range also takes in start_port + max_attempts.
find_free_port_step_inclusive(search, free) ==
    IF search.port > search.start_port + search.max_attempts
    THEN [search EXCEPT !.ended = "RuntimeError"]
    ELSE IF free
    THEN [search EXCEPT !.probed = Append(@, free), !.ended = "port"]
    ELSE [search EXCEPT !.probed = Append(@, free), !.port = @ + 1]

\* One pass of `for port in range(start_port, start_port + max_attempts)`:
\* the range is exhausted and the call raises, or is_port_free(port) answers
\* free and the call returns port or goes on to the next one.
find_free_port_step(search, free) ==
    IF search.port >= search.start_port + search.max_attempts
    THEN [search EXCEPT !.ended = "RuntimeError"]
    ELSE IF free
    THEN [search EXCEPT !.probed = Append(@, free), !.ended = "port"]
    ELSE [search EXCEPT !.probed = Append(@, free), !.port = @ + 1]

\* find_free_port is called with arguments of the caller's choice.
CallFindFreePort ==
    /\ IF IsNone(port_search) THEN TRUE ELSE Val(port_search).ended # "no"
    /\ \E start_port \in {DEFAULT_START_PORT, DEFAULT_START_PORT + 1},
          max_attempts \in 0..MaxAttempts :
          port_search' = Some(PortSearch("direct", start_port, max_attempts))
    /\ UNCHANGED <<app_vars, buf, added, gen_vars, net_vars, wm_call, theme, main_proc, plot_call>>

\* run() in native mode calls find_free_port(start_port=8000).
RunNative ==
    /\ IF IsNone(port_search) THEN TRUE ELSE Val(port_search).ended # "no"
    /\ port_search' = Some(PortSearch("run", DEFAULT_START_PORT, DEFAULT_MAX_ATTEMPTS))
    /\ UNCHANGED <<app_vars, buf, added, gen_vars, net_vars, wm_call, theme, main_proc, plot_call>>

ProbePort ==
    /\ ~IsNone(port_search)
    /\ Val(port_search).ended = "no"
    /\ \E free \in BOOLEAN :
          port_search' = Some(find_free_port_step(Val(port_search), free))
    /\ UNCHANGED <<app_vars, buf, added, gen_vars, net_vars, wm_call, theme, main_proc, plot_call>>

\* run() builds ui_params from the port returned, or with port 0 in the
\* handler of RuntimeError.
RunSetsPort ==
    /\ ~IsNone(port_search)
    /\ Val(port_search).caller = "run"
    /\ Val(port_search).ended # "no"
    /\ IsNone(Val(port_search).ui_port)
    /\ port_search' =
           Some([Val(port_search) EXCEPT
                    !.ui_port = IF Val(port_search).ended = "RuntimeError"
                                THEN Some(0)
                                ELSE Some(Val(port_search).port)])
    /\ UNCHANGED <<app_vars, buf, added, gen_vars, net_vars, wm_call, theme, main_proc, plot_call>>

PortsNext ==
    \/ CallFindFreePort
    \/ RunNative
    \/ ProbePort
    \/ RunSetsPort

SpecPorts == Init /\ [][PortsNext]_vars

\* ---------------------------------------------------------------------
\* create_window_manager (platforms/factory.py)
\* ---------------------------------------------------------------------

\* Fault: Qt is tried before the native toolkit of the platform.
ManagersToTry_qt_first(current_platform) ==
    IF current_platform = "Darwin" THEN <<"pyside6", "pyqt6", "macos_webkit">>
    ELSE IF current_platform = "Windows" THEN <<"pyside6", "pyqt6">>
    ELSE IF current_platform = "Linux" THEN <<"pyside6", "pyqt6", "gtk">>
    ELSE <<"pyside6", "pyqt6">>

\* managers_to_try for the value of platform.system().
ManagersToTry(current_platform) ==
    IF current_platform = "Darwin" THEN <<"macos_webkit", "pyside6", "pyqt6">>
    ELSE IF current_platform = "Windows" THEN <<"pyqt6", "pyside6">>
    ELSE IF current_platform = "Linux" THEN <<"gtk", "pyside6", "pyqt6">>
    ELSE <<"pyside6", "pyqt6">>

\* _create_specific_manager: the manager, the ImportError of a toolkit whose
\* import or constructor fails, or the ValueError of an unknown name.
_create_specific_manager(toolkit, available) ==
    IF toolkit \notin {"pyside6", "pyqt6", "gtk", "macos_webkit"} THEN "ValueError"
    ELSE IF toolkit \in available THEN toolkit
    ELSE "ImportError"

\* create_window_manager is called: with a toolkit it returns or raises what
\* _create_specific_manager does, without one it starts on managers_to_try.
\* The macOS manager is available on Darwin only
\* (macos_webkit_manager.py lines 13-14).
CallCreateWindowManager ==
    /\ IF IsNone(wm_call) THEN TRUE ELSE Val(wm_call).result # "pending"
    /\ \E current_platform \in {"Darwin", "Windows", "Linux", "FreeBSD"},
          toolkit \in {"", "pyside6", "pyqt6", "gtk", "macos_webkit", "tk"},
          available \in SUBSET {"pyside6", "pyqt6", "gtk", "macos_webkit"} :
          /\ "macos_webkit" \in available => current_platform = "Darwin"
          /\ wm_call' = Some([current_platform |-> current_platform,
                           toolkit |-> toolkit,
                           available |-> available,
                           managers_to_try |->
                               IF toolkit # "" THEN << >> ELSE ManagersToTry(current_platform),
                           tried |-> IF toolkit # "" THEN <<toolkit>> ELSE << >>,
                           result |-> IF toolkit # ""
                                      THEN _create_specific_manager(toolkit, available)
                                      ELSE "pending"])
    /\ UNCHANGED <<app_vars, buf, added, gen_vars, net_vars, port_search, theme, main_proc, plot_call>>

\* One pass of `for manager_type in managers_to_try`, or the raise after it.
TryManager ==
    /\ ~IsNone(wm_call)
    /\ Val(wm_call).result = "pending"
    /\ wm_call' =
          LET call == Val(wm_call)
          IN  IF Len(call.managers_to_try) = 0
              THEN Some([call EXCEPT !.result = "ImportError"])
              ELSE LET manager_type == Head(call.managers_to_try)
                       manager == _create_specific_manager(manager_type, call.available)
                   IN  Some([call EXCEPT
                                !.managers_to_try = Tail(@),
                                !.tried = Append(@, manager_type),
                                !.result = IF manager = "ImportError" THEN "pending"
                                           ELSE manager])
    /\ UNCHANGED <<app_vars, buf, added, gen_vars, net_vars, port_search, theme, main_proc, plot_call>>

FactoryNext ==
    \/ CallCreateWindowManager
    \/ TryManager

SpecFactory == Init /\ [][FactoryNext]_vars

\* ---------------------------------------------------------------------
\* efficient_update_plot_data / efficient_clear_plot_data called with any
\* element and trace index (src/app/root_page.py)
\* ---------------------------------------------------------------------

\* Fault: the exception leaves the function.
on_plot_exception_reraises == "raised"

\* `except Exception as e: log_action(...)`: the function returns.
on_plot_exception == "caught"

\* How a call ends: at the guard for None or an element without a figure;
\* in the except clause when figure.data[trace_index] raises IndexError,
\* the figures having one trace; else with the trace updated.
PlotCallOutcome(element, trace_index) ==
    IF element # "figure" THEN "guard"
    ELSE IF trace_index >= 1 THEN on_plot_exception
    ELSE "updated"

CallPlotHelper ==
    \E function \in {"efficient_update_plot_data", "efficient_clear_plot_data"},
       element \in {"None", "no figure", "figure"},
       trace_index \in {0, 1},
       shown \in UNION {[1..n -> ProjectionSamples] : n \in 0..1},
       data \in UNION {[1..n -> ProjectionSamples] : n \in 0..2} :
        LET before == IF element = "figure" THEN Some(create_scanner_plot(shown)) ELSE None
            outcome == PlotCallOutcome(element, trace_index)
        IN  /\ plot_call' =
                  Some([function |-> function, element |-> element,
                        trace_index |-> trace_index, before |-> before,
                        outcome |-> outcome,
                        after |-> IF outcome # "updated" THEN before
                                  ELSE IF function = "efficient_clear_plot_data"
                                  THEN efficient_clear_plot_data(before)
                                  ELSE efficient_update_plot_data(before,
                                           Frequencies(data), Powers(data),
                                           Some(Bandwidths(data)), Some(Sizes(data)), None)])
            /\ UNCHANGED <<app_vars, buf, added, gen_vars, net_vars,
                           port_search, wm_call, theme, main_proc>>

SpecPlotCalls == Init /\ [][CallPlotHelper]_vars

\* ---------------------------------------------------------------------
\* root_page.py with its shutdown paths and its theme setting
\* ---------------------------------------------------------------------

\* on_sensor_shutdown: the timer is deactivated and dropped; is_generating
\* is not assigned.
on_sensor_shutdown ==
    /\ timer' = None
    /\ UNCHANGED <<is_generating, detached_timers, cfg_vars, data_buffer, plot_vars,
                   sel_vars, last_batch, buf_vars>>

\* quit_application, the Quit item of the page's menu: the same two
\* assignments, then app.shutdown().
quit_application ==
    /\ PageLoaded
    /\ timer' = None
    /\ UNCHANGED <<is_generating, detached_timers, cfg_vars, data_buffer, plot_vars,
                   sel_vars, last_batch, buf_vars>>

\* toggle_theme on the theme state t.
toggle_theme(t) ==
    [t EXCEPT !.dark_mode_enabled = ~@,
              !.dark_mode_element = IF IsNone(@) THEN @ ELSE Some(~t.dark_mode_enabled)]

\* on_theme_change with the value the switch sends.
on_theme_change(t, new_value) ==
    IF new_value # t.dark_mode_enabled THEN toggle_theme(t) ELSE t

\* reset_settings of the configuration dialog.
reset_settings(t) ==
    toggle_theme([t EXCEPT !.dark_mode_enabled = FALSE, !.theme_switch = Some(FALSE)])

\* main_page: the dark mode element and the theme switch are created from
\* dark_mode_enabled, then the plots.
MainPage ==
    /\ \E seed \in Seeds : _setup_plots_section(seed)
    /\ theme' = [theme EXCEPT !.dark_mode_element = Some(theme.dark_mode_enabled),
                              !.theme_switch = Some(theme.dark_mode_enabled)]
    /\ UNCHANGED <<buf, added, gen_vars, net_vars, port_search, wm_call, main_proc, plot_call>>

\* The user flips the theme switch.
ThemeSwitched ==
    /\ ~IsNone(theme.theme_switch)
    /\ \E new_value \in {~Val(theme.theme_switch)} :
          theme' = on_theme_change([theme EXCEPT !.theme_switch = Some(new_value)], new_value)
    /\ UNCHANGED <<app_vars, buf, added, gen_vars, net_vars,
                   port_search, wm_call, main_proc, plot_call>>

ResetSettings ==
    /\ ~IsNone(theme.theme_switch)
    /\ theme' = reset_settings(theme)
    /\ UNCHANGED <<app_vars, buf, added, gen_vars, net_vars,
                   port_search, wm_call, main_proc, plot_call>>

NextLifecycle ==
    \/ MainPage
    \/ PacketsChange
    \/ UpdateRateChange
    \/ Start
    \/ Stop
    \/ Clear
    \/ Tick
    \/ on_sensor_shutdown
    \/ quit_application
    \/ ThemeSwitched
    \/ ResetSettings

SpecLifecycle == Init /\ [][NextLifecycle]_vars

\* ---------------------------------------------------------------------
\* main.py: startup, backend server thread and cleanup
\* ---------------------------------------------------------------------

\* Everything but main_proc.
not_main_vars == <<app_vars, buf, added, gen_vars, net_vars,
                   port_search, wm_call, theme, plot_call>>

\* A cleanup_application call made by caller, about to test the flag.
Frame(caller) == [caller |-> caller, pc |-> "guard"]
Invoke(p, caller) ==
    [p EXCEPT !.stack = Append(@, Frame(caller)), !.calls = @ + 1]

\* Fault: cleanup_application without `if shutdown_requested: return`.
AlreadyRequested_unguarded(p) == FALSE

\* `if shutdown_requested: return`
AlreadyRequested(p) == p.shutdown_requested

\* The condition under which cleanup_application runs each of its steps.
StepApplies(p, step) ==
    CASE step = "web view" -> p.web_view /\ p.window_manager
      [] step = "server" -> p.server_thread # "none"
      [] OTHER -> p.main_app /\ p.window_manager
NextStep(step) ==
    CASE step = "web view" -> "server"
      [] step = "server" -> "events"
      [] step = "events" -> "quit"
      [] OTHER -> "done"

\* main() up to the start of the backend server, one statement group at a
\* time; the main thread runs only while no cleanup call is in progress.
MainSetsUp ==
    /\ main_proc.stack = << >>
    /\ main_proc.pc \in {"not started", "manager", "handlers", "application", "web view"}
    /\ main_proc' =
          CASE main_proc.pc = "not started" ->
                   [main_proc EXCEPT !.pc = "manager", !.window_manager = TRUE]
            [] main_proc.pc = "manager" ->
                   [main_proc EXCEPT !.pc = "handlers", !.handlers = TRUE]
            [] main_proc.pc = "handlers" ->
                   [main_proc EXCEPT !.pc = "application", !.main_app = TRUE]
            [] main_proc.pc = "application" ->
                   [main_proc EXCEPT !.pc = "web view", !.web_view = TRUE]
            [] OTHER ->
                   [main_proc EXCEPT !.pc = "server wait", !.server_thread = "started"]
    /\ UNCHANGED not_main_vars

\* One of those statements raises: `except Exception` calls
\* cleanup_application and main returns 1.
MainRaises ==
    /\ main_proc.stack = << >>
    /\ main_proc.pc \in {"not started", "manager", "handlers", "application"}
    /\ main_proc' = Invoke([main_proc EXCEPT !.pc = "except"], "main")
    /\ UNCHANGED not_main_vars

\* BackendServerThread.run: setup_ui, then server_url and the ready event
\* are set, then ui.run serves until shutdown; setup_ui or ui.run may
\* raise, which run() logs.
ServerRuns ==
    /\ main_proc.server_thread \in {"started", "ready"}
    /\ \E raises \in BOOLEAN :
          main_proc' =
              IF raises THEN [main_proc EXCEPT !.server_thread = "failed"]
              ELSE IF main_proc.server_thread = "started"
              THEN [main_proc EXCEPT !.server_thread = "ready", !.server_ready = TRUE]
              ELSE [main_proc EXCEPT !.server_thread = "serving"]
    /\ UNCHANGED not_main_vars

\* start_backend_server returns: True once the ready event is set, False
\* when wait_for_ready times out first, and then main returns 1.
ServerWaitEnds ==
    /\ main_proc.stack = << >>
    /\ main_proc.pc = "server wait"
    /\ main_proc' =
          IF main_proc.server_ready
          THEN [main_proc EXCEPT !.pc = "load"]
          ELSE [main_proc EXCEPT !.pc = "returned", !.exit_code = Some(1)]
    /\ UNCHANGED not_main_vars

\* load_web_content, show_window and run_event_loop, which returns once the
\* application was told to quit.
MainShows ==
    /\ main_proc.stack = << >>
    /\ \/ /\ main_proc.pc = "load"
          /\ \E raises \in BOOLEAN :
                main_proc' =
                    IF raises
                    THEN [main_proc EXCEPT !.pc = "returned", !.exit_code = Some(1)]
                    ELSE [main_proc EXCEPT !.pc = "show", !.loaded = TRUE]
       \/ /\ main_proc.pc = "show"
          /\ main_proc' = [main_proc EXCEPT !.pc = "event loop", !.shown = TRUE]
       \/ /\ main_proc.pc = "event loop"
          /\ \E i \in 1..Len(main_proc.steps) : main_proc.steps[i] = "quit"
          /\ main_proc' = [main_proc EXCEPT !.pc = "returned", !.exit_code = Some(0)]
    /\ UNCHANGED not_main_vars

\* sys.exit(main(toolkit)): the interpreter exits and runs the atexit
\* handler if main registered it.
Exit ==
    /\ main_proc.stack = << >>
    /\ main_proc.pc = "returned"
    /\ main_proc' =
          IF main_proc.handlers
          THEN Invoke([main_proc EXCEPT !.pc = "atexit"], "atexit")
          ELSE [main_proc EXCEPT !.pc = "exited"]
    /\ UNCHANGED not_main_vars

\* SIGINT or SIGTERM: signal_handler runs on the main thread, on top of
\* whatever that thread was doing.
Signal ==
    /\ main_proc.handlers
    /\ main_proc.pc \notin {"exited"}
    /\ main_proc.events < MaxEvents
    /\ main_proc' = Invoke([main_proc EXCEPT !.events = @ + 1], "signal")
    /\ UNCHANGED not_main_vars

\* on_window_close: the toolkit delivers a close request from the event
\* loop, or from process_events inside a cleanup in progress.
WindowClose ==
    /\ main_proc.shown
    /\ main_proc.events < MaxEvents
    /\ IF main_proc.stack = << >>
       THEN main_proc.pc = "event loop"
       ELSE main_proc.stack[Len(main_proc.stack)].pc = "events"
    /\ main_proc' = Invoke([main_proc EXCEPT !.events = @ + 1], "window")
    /\ UNCHANGED not_main_vars

\* The innermost cleanup_application call moves on: the test of the flag,
\* its assignment, one of the four steps (which may raise, ending the call
\* in its except clause), or the return to the caller.  signal_handler
\* goes on to sys.exit(0), which unwinds every call in progress.
CleanupRuns ==
    /\ main_proc.stack # << >>
    /\ LET top == Len(main_proc.stack)
           frame == main_proc.stack[top]
       IN  \/ /\ frame.pc = "guard"
              /\ main_proc' =
                    [main_proc EXCEPT !.stack[top].pc =
                        IF AlreadyRequested(main_proc) THEN "done" ELSE "set"]
           \/ /\ frame.pc = "set"
              /\ main_proc' = [main_proc EXCEPT !.shutdown_requested = TRUE,
                                                !.stack[top].pc = "web view"]
           \/ /\ frame.pc \in {"web view", "server", "events", "quit"}
              /\ \E raises \in BOOLEAN :
                    main_proc' =
                        IF ~StepApplies(main_proc, frame.pc)
                        THEN [main_proc EXCEPT !.stack[top].pc = NextStep(frame.pc)]
                        ELSE [main_proc EXCEPT
                                 !.steps = Append(@, frame.pc),
                                 !.server_thread =
                                     IF frame.pc = "server" /\ ~raises THEN "stopped" ELSE @,
                                 !.stack[top].pc =
                                     IF raises THEN "done" ELSE NextStep(frame.pc)]
           \/ /\ frame.pc = "done"
              /\ main_proc' =
                    CASE frame.caller = "signal" ->
                             [main_proc EXCEPT !.stack = << >>,
                                               !.pc = IF @ = "atexit" THEN "exited" ELSE "returned",
                                               !.exit_code = Some(0)]
                      [] frame.caller = "main" ->
                             [main_proc EXCEPT !.stack = SubSeq(@, 1, top - 1),
                                               !.pc = "returned", !.exit_code = Some(1)]
                      [] frame.caller = "atexit" ->
                             [main_proc EXCEPT !.stack = SubSeq(@, 1, top - 1),
                                               !.pc = "exited"]
                      [] OTHER ->
                             [main_proc EXCEPT !.stack = SubSeq(@, 1, top - 1)]
    /\ UNCHANGED not_main_vars

NextMain ==
    \/ MainSetsUp
    \/ MainRaises
    \/ ServerRuns
    \/ ServerWaitEnds
    \/ MainShows
    \/ Exit
    \/ Signal
    \/ WindowClose
    \/ CleanupRuns

SpecMain == Init /\ [][NextMain]_vars

(***************************************************************************)
(* Properties.                                                             *)
(***************************************************************************)
Buffered == get_data(data_buffer)
FreqBwFig == Val(freq_bw_plot_element)
ScannerFig == Val(scanner_plot_element)
\* The indices a figure renders as selected (none when selectedpoints is None).
IndexSet(o) == IF IsNone(o) THEN {} ELSE Range(Val(o))

\* C1: for a PlotDataBuffer of capacity N, after any sequence of add_data and
\* clear calls, get_size() <= N and get_data() is, in insertion order, exactly
\* the last min(N, k) of the k elements added since the most recent clear.
C1_BufferKeepsNewest ==
    LET k == Len(added)
        kept == Min(buf.max_size, k)
    IN  /\ get_size(buf) <= buf.max_size
        /\ Len(get_data(buf)) = kept
        /\ \A i \in 1..kept : get_data(buf)[i] = added[k - kept + i]

\* C1 witness: a buffer that has overflowed (more added than its capacity).
C1_Witness ==
    /\ buf.max_size >= 2
    /\ Len(added) > buf.max_size
    /\ get_size(buf) = buf.max_size
    /\ get_data(buf)[1] # added[1]

\* The newest n elements of a batch.
NewestOf(batch, n) == SubSeq(batch, Len(batch) - n + 1, Len(batch))

\* C2: after every tick executed while Running the buffer holds only samples
\* of that tick's batch, the newest min(packets_per_second, 300) of them.
C2_TickReplacesBuffer ==
    is_generating =>
        \A seed \in Seeds :
            LET batch == generate_sensor_data(packets_per_second, seed)
                kept == NewestOf(batch, Min(packets_per_second, 300))
            IN  ~ENABLED (TimerFires(seed) /\ get_data(data_buffer)' # kept)

\* C2 witness: a tick has run with a batch larger than the capacity.
C2_Witness ==
    /\ is_generating
    /\ ~IsNone(last_batch)
    /\ Val(last_batch)[1] = 305
    /\ get_size(data_buffer) = 300
    /\ Buffered[1] = Sample(Val(last_batch)[2], 6)

\* C3: start_generation while Running and stop_generation while Stopped
\* change nothing: no variable of the module, no timer, no plot.
C3_StartStopIdempotent ==
    /\ is_generating => ~ENABLED (Start /\ vars' # vars)
    /\ ~is_generating => ~ENABLED (Stop /\ vars' # vars)

\* C3 witness: Running, with data and a selection, and Start can be pressed.
C3_Witness ==
    /\ is_generating
    /\ ENABLED Start
    /\ get_size(data_buffer) > 0
    /\ ~IsNone(freq_bw_selection_state)

\* C4: while Stopped no timer is active, so no tick runs, and an invocation
\* of the callback that still arrives changes neither the buffer nor a plot.
C4_StoppedMeansNoTicks ==
    ~is_generating =>
        /\ IsNone(timer)
        /\ detached_timers = 0
        /\ ~ENABLED Tick
        /\ ~ENABLED (LateCallback /\ <<data_buffer, plot_vars>>' # <<data_buffer, plot_vars>>)

\* C4 witness: Stopped after generation has run, and a late callback can arrive.
C4_Witness ==
    /\ ~is_generating
    /\ ~IsNone(last_batch)
    /\ get_size(data_buffer) > 0
    /\ ENABLED LateCallback

\* The empty form of a plot, and the state clear_plots is to leave.
EmptyForm(plot_element) ==
    /\ ~IsNone(plot_element)
    /\ Val(plot_element).x = << >>
    /\ Val(plot_element).y = << >>
    /\ Val(plot_element).color = Some(<< >>)
    /\ Val(plot_element).selectedpoints = None
    /\ Val(plot_element).shapes = << >>
AllCleared ==
    /\ get_size(data_buffer) = 0
    /\ freq_bw_selection_state = None
    /\ freq_bw_selected_points = None
    /\ scanner_selection_state = None
    /\ scanner_selected_points = None
    /\ EmptyForm(freq_bw_plot_element)
    /\ EmptyForm(scanner_plot_element)

C6_ClearKeepsLoopState ==
    /\ ~ENABLED (Clear /\ ctl_vars' # ctl_vars)
    /\ is_generating /\ ~IsNone(timer)
           => ENABLED Tick /\ ~ENABLED (Tick /\ get_size(data_buffer)' = 0)

\* C6 witness: cleared while Running, the timer still active.
C6_Witness ==
    /\ is_generating
    /\ ~IsNone(timer)
    /\ Val(timer).active
    /\ get_size(data_buffer) = 0
    /\ EmptyForm(scanner_plot_element)

\* A plot with a stored rectangle renders the stored indices below its length.
RenderedMatchesStored(plot_element, selection_state, selected_points) ==
    ~IsNone(plot_element) /\ ~IsNone(selection_state) =>
        IndexSet(Val(plot_element).selectedpoints)
            = IndexSet(selected_points) \cap (0..(Len(Val(plot_element).x) - 1))
SelectionRendered ==
    /\ RenderedMatchesStored(freq_bw_plot_element, freq_bw_selection_state,
                             freq_bw_selected_points)
    /\ RenderedMatchesStored(scanner_plot_element, scanner_selection_state,
                             scanner_selected_points)

IsRange(rect, range) ==
    /\ rect.x0 = range.x[1] /\ rect.x1 = range.x[2]
    /\ rect.y0 = range.y[1] /\ rect.y1 = range.y[2]
IsBoundingBox(rect, points) ==
    /\ \E i \in 1..Len(points) : points[i].x = rect.x0
    /\ \E i \in 1..Len(points) : points[i].x = rect.x1
    /\ \E i \in 1..Len(points) : points[i].y = rect.y0
    /\ \E i \in 1..Len(points) : points[i].y = rect.y1
    /\ \A i \in 1..Len(points) :
          /\ rect.x0 <= points[i].x /\ points[i].x <= rect.x1
          /\ rect.y0 <= points[i].y /\ points[i].y <= rect.y1
Selected(selection_data, selection_state, selected_points) ==
    LET points == PointsOf(selection_data)
    IN  /\ ~IsNone(selection_state)
        /\ IF HasRange(selection_data)
           THEN IsRange(Val(selection_state), Val(Val(selection_data).range))
           ELSE IsBoundingBox(Val(selection_state), points)
        /\ ~IsNone(selected_points)
        /\ Len(Val(selected_points)) = Len(points)
        /\ \A i \in 1..Len(points) : Val(selected_points)[i] = points[i].pointIndex
WithPoints(payloads) == {p \in payloads : Truthy(p) /\ HasPoints(p)}
ExamplePayload == Payload(None, Some(<<Point(2412, 20, 0), Point(2417, 40, 1)>>))
ExampleStored ==
    /\ freq_bw_selection_state = Some([x0 |-> 2412, x1 |-> 2417, y0 |-> 20, y1 |-> 40])
    /\ freq_bw_selected_points = Some(<<0, 1>>)

\* C8: a selection event with at least one point stores the payload's range
\* as the plot's rectangle when a range is present, otherwise the bounding
\* box of the points, and stores the points' pointIndex values as the index
\* list; the points (2412,20,0),(2417,40,1) give 2412,2417,20,40 and 0,1.
C8_EventStoresSelection ==
    /\ \A p \in WithPoints(FreqBwPayloads) :
          ~ENABLED (FreqBwEvent(p)
                    /\ ~Selected(p, freq_bw_selection_state, freq_bw_selected_points)')
    /\ \A p \in WithPoints(ScannerPayloads) :
          ~ENABLED (ScannerEvent(p)
                    /\ ~Selected(p, scanner_selection_state, scanner_selected_points)')
    /\ ~ENABLED (FreqBwEvent(ExamplePayload) /\ ~ExampleStored')

\* C8 witness: the frequency/bandwidth plot stores the range and the indices
\* of an event that carried both a range and points.
C8_Witness ==
    /\ freq_bw_selection_state = Some([x0 |-> 2410, x1 |-> 2470, y0 |-> 15, y1 |-> 45])
    /\ freq_bw_selected_points = Some(<<299, 80>>)

\* The payloads without points.
WithoutPoints(payloads) == {p \in payloads : ~(Truthy(p) /\ HasPoints(p))}

\* C9 as stated: a selection event with no points, whether or not it carries
\* a range, leaves both the plot's rectangle and its index list None.
C9_NoPointsClearsAll ==
    /\ \A p \in WithoutPoints(FreqBwPayloads) :
          ~ENABLED (FreqBwEvent(p)
                    /\ ~(freq_bw_selection_state = None /\ freq_bw_selected_points = None)')
    /\ \A p \in WithoutPoints(ScannerPayloads) :
          ~ENABLED (ScannerEvent(p)
                    /\ ~(scanner_selection_state = None
                         /\ scanner_selected_points = None)')

\* What a handler stores for a payload without points.
ClearedOrRange(selection_data, selection_state, selected_points) ==
    /\ selected_points = None
    /\ IF Truthy(selection_data) /\ HasRange(selection_data)
       THEN /\ ~IsNone(selection_state)
            /\ IsRange(Val(selection_state), Val(Val(selection_data).range))
       ELSE selection_state = None

\* C9 amended: a selection event with no points leaves the plot's index list
\* None; its rectangle becomes the payload's range when the payload carries
\* one, and None when it carries none (or is absent or empty).
C9_NoPointsClearsIndices ==
    /\ \A p \in WithoutPoints(FreqBwPayloads) :
          ~ENABLED (FreqBwEvent(p)
                    /\ ~ClearedOrRange(p, freq_bw_selection_state, freq_bw_selected_points)')
    /\ \A p \in WithoutPoints(ScannerPayloads) :
          ~ENABLED (ScannerEvent(p)
                    /\ ~ClearedOrRange(p, scanner_selection_state, scanner_selected_points)')

\* C9 witness: after a range-only event during generation, the frequency /
\* bandwidth plot stores the range and no indices.
C9_Witness ==
    /\ ~IsNone(last_batch)
    /\ freq_bw_selection_state = Some([x0 |-> 2410, x1 |-> 2470, y0 |-> 15, y1 |-> 45])
    /\ freq_bw_selected_points = None

\* C10: no tick (and no late callback) changes any of the four selection
\* variables, and a plot's two selection variables change only in that plot's
\* selection handler or in clear_plots.
C10_SelectionPersistsAcrossTicks ==
    [][/\ sel_vars' # sel_vars => ~Tick /\ ~LateCallback
       /\ freq_bw_sel_vars' # freq_bw_sel_vars => Clear \/ FreqBwSelected
       /\ scanner_sel_vars' # scanner_sel_vars => Clear \/ ScannerSelected]_vars

\* C10 witness: a tick has rendered only index 0 of the scanner plot's stored
\* indices 80 and 0, and both are still stored.
C10_Witness ==
    /\ is_generating
    /\ ~IsNone(last_batch)
    /\ ~IsNone(scanner_plot_element)
    /\ ScannerFig.selectedpoints = Some(<<0>>)
    /\ scanner_selected_points = Some(<<80, 0>>)
    /\ ~IsNone(scanner_selection_state)

\* C11: a selection event on one plot, whatever its payload (set, supersede
\* or clear), leaves the other plot's rectangle and index list unchanged.
C11_SelectionsIndependent ==
    /\ \A p \in FreqBwPayloads :
          ~ENABLED (FreqBwEvent(p) /\ scanner_sel_vars' # scanner_sel_vars)
    /\ \A p \in ScannerPayloads :
          ~ENABLED (ScannerEvent(p) /\ freq_bw_sel_vars' # freq_bw_sel_vars)

\* C11 witness: the scanner plot keeps its selection after the frequency /
\* bandwidth plot's selection was set and then cleared.
C11_Witness ==
    /\ scanner_selected_points = Some(<<80, 0>>)
    /\ ~IsNone(scanner_selection_state)
    /\ freq_bw_selection_state = None
    /\ freq_bw_selected_points = None
    /\ ~IsNone(freq_bw_plot_element)
    /\ Len(FreqBwFig.shapes) = 1

\* The next tick raises: generation is on and a stored index list that the
\* tick filters holds an index that is not a number.
NextTickRaises ==
    /\ is_generating
    /\ PageLoaded
    /\ \/ TickRaises(freq_bw_plot_element, <<0>>, freq_bw_selection_state,
                      freq_bw_selected_points)
       \/ TickRaises(scanner_plot_element, <<0>>, scanner_selection_state,
                      scanner_selected_points)
\* The loop after a tick: still generating, the same timer still active.
LoopGoesOn ==
    /\ is_generating
    /\ ~IsNone(timer)
    /\ Val(timer).active

\* C12: a tick in which an exception is raised leaves is_generating True and
\* the timer as it was and active, and every such tick can run and puts its
\* new batch into the buffer.
C12_FailedTickKeepsLoopRunning ==
    NextTickRaises /\ LoopGoesOn =>
        \A seed \in Seeds :
            /\ ENABLED TimerFires(seed)
            /\ ~ENABLED (TimerFires(seed)
                         /\ ~(/\ LoopGoesOn'
                              /\ timer' = timer
                              /\ detached_timers' = detached_timers
                              /\ get_data(data_buffer)'
                                    = generate_sensor_data(packets_per_second, seed)))

\* C12 witness: generation still runs after a tick that failed in the scanner
\* half (the frequency/bandwidth plot shows the batch, the scanner plot not).
C12_Witness ==
    /\ NextTickRaises
    /\ LoopGoesOn
    /\ ~IsNone(last_batch)
    /\ FreqBwFig.x = Frequencies(Buffered)
    /\ ScannerFig.x # Frequencies(Buffered)

\* C13: a tick in which an exception is raised changes neither the buffer
\* contents nor what the two plots show.
C13_FailedTickIsNoOp ==
    NextTickRaises =>
        ~ENABLED (Tick /\ <<get_data(data_buffer), plot_vars>>'
                            # <<get_data(data_buffer), plot_vars>>)

\* A sample within the documented ranges.
InRange(sample) ==
    /\ FREQ_MIN <= sample[2] /\ sample[2] <= FREQ_MAX
    /\ BANDWIDTH_MIN <= sample[3] /\ sample[3] <= BANDWIDTH_MAX
    /\ POWER_MIN <= sample[4] /\ sample[4] <= POWER_MAX

\* C14: generate_sensor_data(count) returns exactly count samples (none for
\* count = 0), and every sample, whatever was drawn for it, has its
\* frequency in 2400..2500, its bandwidth in 1..80 and its power in -100..-30.
C14_GeneratorCountAndRanges ==
    /\ ~IsNone(gen_batch) =>
          /\ Len(Val(gen_batch).data) = Val(gen_batch).count
          /\ Val(gen_batch).count = 0 => Val(gen_batch).data = << >>
          /\ \A i \in 1..Len(Val(gen_batch).data) : InRange(Val(gen_batch).data[i])
    /\ gen_packet.pc = "done" => InRange(gen_packet.sample)

\* C14 witness: a sample of the uniform bucket whose weak-signal power plus
\* noise was clamped to POWER_MIN.
C14_Witness ==
    /\ gen_packet.pc = "done"
    /\ gen_packet.bucket = "uniform"
    /\ gen_packet.sample[2] = FREQ_MAX
    /\ gen_packet.sample[4] = POWER_MIN

\* C15: a sample's bandwidth follows the bucket its frequency was drawn
\* from: a WiFi bandwidth (20, 40, 5, 10 or 80) for the WiFi bucket, 1 or 2
\* for the Bluetooth bucket, a uniform bandwidth (1..20) for the uniform one.
C15_BandwidthFollowsBucket ==
    gen_packet.pc \in {"power", "done"} =>
        /\ gen_packet.bucket = "wifi" =>
              gen_packet.sample[3] \in TypicalBandwidths \cup RareBandwidths
        /\ gen_packet.bucket = "bluetooth" =>
              gen_packet.sample[3] \in BluetoothBandwidths
        /\ gen_packet.bucket = "uniform" =>
              gen_packet.sample[3] \in BANDWIDTH_MIN..20

\* clamp(bandwidth/4, 4, 15), in quarter units.
Clamped(bw) == IF bw < 4 * 4 THEN 4 * 4 ELSE IF bw > 4 * 15 THEN 4 * 15 ELSE bw

\* C16: for a non-empty buffer, whichever form produced the figures, the
\* frequency/bandwidth plot has x = frequencies, y = bandwidths, color =
\* powers and the scanner plot x = frequencies, y = powers, color =
\* bandwidths, size[i] = clamp(bandwidth[i]/4, 4, 15), in buffer order and of
\* the buffer's length.
C16_ProjectionsFollowBuffer ==
    PageLoaded /\ get_size(data_buffer) > 0 =>
        LET n == get_size(data_buffer)
        IN  /\ Len(FreqBwFig.x) = n /\ Len(FreqBwFig.y) = n
            /\ ~IsNone(FreqBwFig.color) /\ Len(Val(FreqBwFig.color)) = n
            /\ Len(ScannerFig.x) = n /\ Len(ScannerFig.y) = n
            /\ ~IsNone(ScannerFig.color) /\ Len(Val(ScannerFig.color)) = n
            /\ ~ScannerFig.size.scalar /\ Len(ScannerFig.size.v) = n
            /\ \A i \in 1..n :
                  /\ FreqBwFig.x[i] = Buffered[i][2]
                  /\ FreqBwFig.y[i] = Buffered[i][3]
                  /\ Val(FreqBwFig.color)[i] = Buffered[i][4]
                  /\ ScannerFig.x[i] = Buffered[i][2]
                  /\ ScannerFig.y[i] = Buffered[i][4]
                  /\ Val(ScannerFig.color)[i] = Buffered[i][3]
                  /\ ScannerFig.size.v[i] = Clamped(Buffered[i][3])

\* C16 witness: a scanner plot of three samples whose sizes are the lower
\* clamp, an unclamped value and the upper clamp.
C16_Witness ==
    /\ PageLoaded
    /\ get_size(data_buffer) = 3
    /\ ScannerFig.size = ArraySize(<<4 * 4, 40, 4 * 15>>)
    /\ FreqBwFig.y = <<1, 40, 80>>

\* The empty projection: one trace whose x and y are empty, whose color is
\* absent or empty and whose size is a scalar or empty.
EmptyProjection(fig) ==
    /\ fig.x = << >>
    /\ fig.y = << >>
    /\ IsNone(fig.color) \/ Val(fig.color) = << >>
    /\ fig.size.scalar \/ fig.size.v = << >>

\* C17: when the buffer is empty, whichever form produced the figures, both
\* plots are the empty projection.
C17_EmptyBufferEmptyProjection ==
    PageLoaded /\ get_size(data_buffer) = 0 =>
        EmptyProjection(FreqBwFig) /\ EmptyProjection(ScannerFig)

\* C17 witness: update_scanner_plot has emptied a scanner plot that had a
\* size array (its color and size are empty lists, x and y empty).
C17_Witness ==
    /\ PageLoaded
    /\ get_size(data_buffer) = 0
    /\ ScannerFig.x = << >>
    /\ ScannerFig.size = ArraySize(<< >>)
    /\ FreqBwFig.color = Some(<< >>)
    /\ FreqBwFig.size = ScalarSize(POINT_SIZE)

\* Both plots show the frequencies of the current buffer.
ViewsShowBuffer ==
    /\ FreqBwFig.x = Frequencies(Buffered)
    /\ ScannerFig.x = Frequencies(Buffered)

OverlayIsStored(plot_element, selection_state) ==
    ~IsNone(selection_state) =>
        /\ Len(Val(plot_element).shapes) = 1
        /\ Val(plot_element).shapes[1].type = "rect"
        /\ Val(plot_element).shapes[1].x0 = Val(selection_state).x0
        /\ Val(plot_element).shapes[1].x1 = Val(selection_state).x1
        /\ Val(plot_element).shapes[1].y0 = Val(selection_state).y0
        /\ Val(plot_element).shapes[1].y1 = Val(selection_state).y1
OverlaysAreStored ==
    /\ OverlayIsStored(freq_bw_plot_element, freq_bw_selection_state)
    /\ OverlayIsStored(scanner_plot_element, scanner_selection_state)

Failures == Exceptions \cup ({raise_for_status(r) : r \in Responses} \ Responses)
FailureLabel(e) == ResultLabel(FetchingLabel, e)
\* The label shows how the task that ended last failed.
FailureShown ==
    /\ ~IsNone(ip_outcome)
    /\ Val(ip_outcome).e \in Failures
    /\ public_ip_label = Some(FailureLabel(Val(ip_outcome).e))
\* The failure kinds told apart by the text, and by the except clauses.
FourKinds(e) ==
    IF e.kind \in {"TimeoutException", "HTTPStatusError", "ConnectError"}
    THEN e.kind ELSE "other"
ThreeKinds(e) ==
    IF e.kind \in {"TimeoutException", "HTTPStatusError"} THEN e.kind ELSE "other"
NonePropagates ==
    ~IsNone(ip_outcome) => Val(ip_outcome).handler # "unhandled"

FetchStarts == ip_requests' = ip_requests + 1
\* A request in flight ends and its task writes one outcome label.
FetchEnds ==
    /\ ip_requests' = ip_requests - 1
    /\ ~IsNone(ip_outcome')
    /\ public_ip_label' # Some(FetchingLabel)
    /\ \E outcome \in Responses \cup Exceptions :
          public_ip_label' = Some(ResultLabel(Val(public_ip_label), outcome))

\* C21: a fetch that starts shows "Fetching IP..."; the number of requests
\* in flight goes down only by a request ending, which writes one outcome
\* label (so Clear and a second fetch cancel nothing); and the label reads
\* "Fetching IP..." only while a request is in flight.
C21_FetchRunsToCompletion ==
    /\ [](public_ip_label = Some(FetchingLabel) => ip_requests > 0)
    /\ [][/\ ip_requests' > ip_requests =>
                FetchStarts /\ public_ip_label' = Some(FetchingLabel)
          /\ ip_requests' < ip_requests => FetchEnds]_vars

\* C21 witness: a request is still in flight after an earlier one ended and
\* Clear reset the label.
C21_Witness ==
    /\ ip_requests = 1
    /\ ~IsNone(ip_outcome)
    /\ public_ip_label = Some(InitialLabel)


\* C22: a find_free_port call that returned, returned the lowest port of
\* start_port .. start_port + max_attempts - 1 that is_port_free found free;
\* one that raised RuntimeError found no port of that range free; and run()
\* passes the port found, or 0 after a RuntimeError, to ui.run.
C22_LowestFreePortOrFallback ==
    ~IsNone(port_search) =>
        LET search == Val(port_search)
            tried == Len(search.probed)
        IN  /\ search.ended = "port" =>
                /\ search.port = search.start_port + tried - 1
                /\ search.port < search.start_port + search.max_attempts
                /\ search.probed[tried]
                /\ \A i \in 1..(tried - 1) : ~search.probed[i]
            /\ search.ended = "RuntimeError" =>
                /\ tried = search.max_attempts
                /\ \A i \in 1..tried : ~search.probed[i]
            /\ ~IsNone(search.ui_port) =>
                Val(search.ui_port) = IF search.ended = "RuntimeError" THEN 0 ELSE search.port

\* C22 witness: run() found every port of its range taken and fell back to
\* port 0.
C22_Witness ==
    /\ ~IsNone(port_search)
    /\ Val(port_search).caller = "run"
    /\ Val(port_search).ended = "RuntimeError"
    /\ Len(Val(port_search).probed) = DEFAULT_MAX_ATTEMPTS
    /\ Val(port_search).ui_port = Some(0)


\* The preference order the platform's managers are to be tried in.
PreferenceList(current_platform) ==
    CASE current_platform = "Darwin" -> <<"macos_webkit", "pyside6", "pyqt6">>
      [] current_platform = "Windows" -> <<"pyqt6", "pyside6">>
      [] current_platform = "Linux" -> <<"gtk", "pyside6", "pyqt6">>
      [] OTHER -> <<"pyside6", "pyqt6">>

\* C23: a create_window_manager call without a toolkit ends with the first
\* available manager of the platform's preference list, or with ImportError
\* when none of the list is available; a call with a toolkit tries that
\* toolkit alone and ends with its manager or its error.
C23_FirstAvailableManager ==
    ~IsNone(wm_call) /\ Val(wm_call).result # "pending" =>
        LET call == Val(wm_call)
            list == PreferenceList(call.current_platform)
            usable == {i \in 1..Len(list) : list[i] \in call.available}
        IN  IF call.toolkit = ""
            THEN /\ call.result = "ImportError" <=> usable = {}
                 /\ usable # {} =>
                       /\ call.result = list[CHOOSE i \in usable : \A j \in usable : i <= j]
                       /\ call.tried = SubSeq(list, 1, CHOOSE i \in usable : \A j \in usable : i <= j)
            ELSE /\ call.tried = <<call.toolkit>>
                 /\ call.result \in {call.toolkit, "ImportError", "ValueError"}
                 /\ call.result = call.toolkit <=> call.toolkit \in call.available

\* C23 witness: on Linux without GTK the call fell back to PySide6 without
\* trying PyQt6.
C23_Witness ==
    /\ ~IsNone(wm_call)
    /\ Val(wm_call).current_platform = "Linux"
    /\ Val(wm_call).toolkit = ""
    /\ Val(wm_call).available = {"pyside6", "pyqt6"}
    /\ Val(wm_call).tried = <<"gtk", "pyside6">>
    /\ Val(wm_call).result = "pyside6"


\* C24: no call of efficient_update_plot_data or efficient_clear_plot_data
\* raises; with None or an element without a figure the call has no effect.
C24_PlotHelpersNeverRaise ==
    ~IsNone(plot_call) =>
        /\ Val(plot_call).outcome # "raised"
        /\ Val(plot_call).element # "figure" =>
              /\ Val(plot_call).outcome = "guard"
              /\ Val(plot_call).after = Val(plot_call).before

\* C24 witness: figure.data[1] raised inside efficient_update_plot_data of a
\* real element; the exception was caught and the figure is as before.
C24_Witness ==
    /\ ~IsNone(plot_call)
    /\ Val(plot_call).function = "efficient_update_plot_data"
    /\ Val(plot_call).element = "figure"
    /\ Val(plot_call).trace_index = 1
    /\ Val(plot_call).outcome = "caught"
    /\ Val(plot_call).after = Val(plot_call).before


\* C25: is_generating is TRUE exactly when the module holds an active timer.
C25_RunningIffTimerActive ==
    is_generating <=> (~IsNone(timer) /\ Val(timer).active)

\* C28: after reset_settings dark mode is disabled and agrees with the
\* theme switch, which reads False.
C28_ResetGivesLightTheme ==
    ~IsNone(theme.theme_switch) =>
        ~ENABLED (/\ ResetSettings
                  /\ ~(/\ theme'.dark_mode_enabled = FALSE
                       /\ theme'.theme_switch = Some(theme'.dark_mode_enabled)))


\* A plot without a stored rectangle carries no rectangle overlay.
OverlayOnlyIfStored(plot_element, selection_state) ==
    IsNone(selection_state) =>
        \A i \in 1..Len(Val(plot_element).shapes) : Val(plot_element).shapes[i].type # "rect"

\* C26: after every tick a plot whose stored rectangle is None carries no
\* overlay rectangle.
C26_NoOverlayWithoutSelection ==
    is_generating /\ PageLoaded =>
        ~ENABLED (/\ Tick
                  /\ ~(/\ OverlayOnlyIfStored(freq_bw_plot_element, freq_bw_selection_state)
                       /\ OverlayOnlyIfStored(scanner_plot_element, scanner_selection_state))')


\* A malformed event changes neither the rectangle nor the index list of
\* the plot whose handler raised on it.
RaisingEventChangesNothing ==
    /\ \A selection_data \in BrokenEvents :
          RectRaises(selection_data) \/ IndicesRaise(selection_data) =>
              ~ENABLED (/\ FreqBwEvent(selection_data)
                        /\ freq_bw_sel_vars' # freq_bw_sel_vars)
    /\ \A selection_data \in BrokenEvents :
          RectRaises(selection_data) \/ IndicesRaise(selection_data) =>
              ~ENABLED (/\ ScannerEvent(selection_data)
                        /\ scanner_sel_vars' # scanner_sel_vars)

\* C27: a selection handler that raises on a malformed payload leaves its
\* plot's stored rectangle and stored index list as they were.
C27_RaisingHandlerIsAllOrNothing ==
    PageLoaded => RaisingEventChangesNothing

\* The place of a cleanup step in the order web view, server, events, quit.
StepRank(step) ==
    CASE step = "web view" -> 1
      [] step = "server" -> 2
      [] step = "events" -> 3
      [] OTHER -> 4

\* C29: however cleanup_application is invoked (signal handler, window
\* close, atexit, the except clauses of main), nested or in sequence, each
\* cleanup step runs at most once and the steps that run do so in the order
\* web-view cleanup, server stop, final event processing, application quit.
C29_CleanupOnceInOrder ==
    \A i, j \in 1..Len(main_proc.steps) :
        i < j => StepRank(main_proc.steps[i]) < StepRank(main_proc.steps[j])

\* The process has exited after several cleanup_application calls, one of
\* which ran all four steps.
C29_Witness ==
    /\ main_proc.pc = "exited"
    /\ main_proc.calls >= 2
    /\ main_proc.steps = <<"web view", "server", "events", "quit">>

\* C30: the web view is pointed at the server URL and the window is shown
\* only once the NiceGUI server is serving.
C30_ContentOnlyOnceServing ==
    (main_proc.loaded \/ main_proc.shown) =>
        main_proc.server_thread \notin {"ready", "failed"}

====
